---- MODULE Spec2Model ----
(***************************************************************************)
(* tapa (Tekton Artifact Performance Analysis): the interval extraction,   *)
(* concurrency scoring, duration ranking and parent/child aggregation of   *)
(* the `prlist`, `trlist`, `podlist` and `all` commands.                    *)
(*                                                                         *)
(* Strings are sequences of one-character strings, so that Sprintf and     *)
(* strings.HasPrefix are computed character by character.  Times are       *)
(* whole seconds; Go's zero time.Time is ZeroTime, far below every         *)
(* timestamp.                                                              *)
(***************************************************************************)
EXTENDS Integers, Sequences, FiniteSets, TLC

\* ------------------------------------------------------------------ bounds
\* Timestamps of the input records are 1..MaxTime.
MaxTime == 3
\* Total number of records in the input lists of one command.
MaxItems == 3
\* Number of times one process may call a parse function (SpecReuse only).
MaxCalls == 2
\* Paths the walks of one command visit (SpecFiles only).
MaxFiles == 3

\* ------------------------------------------------------- times and strings
\* time.Duration is an int64 of nanoseconds: the largest Duration, about 292
\* years.  Any two timestamps of the records are closer than that.
MaxDuration == MaxTime + 2
\* var t time.Time: the zero value (year 1), before every real timestamp and
\* farther than the largest Duration from each of them.
ZeroTime == 0 - (2 * MaxDuration)
\* A nil *metav1.Time (pod.Status.StartTime == nil).
NilTime == -1
Times == 1..MaxTime

\* time.Time.Sub / Duration.Seconds(): whole seconds here; a difference that no
\* Duration can hold comes back as the largest or the smallest Duration.
Sub(a, b) ==
    IF a - b > MaxDuration THEN MaxDuration
    ELSE IF a - b < 0 - MaxDuration THEN 0 - MaxDuration
    ELSE a - b
\* time.Time.Before / After / Equal
Before(a, b) == a < b
After(a, b) == a > b
Equal(a, b) == a = b

EmptyString == << >>

\* fmt.Sprintf("%s:%s", ns, name)
Sprintf(ns, name) == ns \o <<":">> \o name
\* fmt.Sprintf("%s:%s-%s", ns, name, cname)
SprintfContainer(ns, name, cname) == ns \o <<":">> \o name \o <<"-">> \o cname

\* strings.HasPrefix(s, prefix)
HasPrefix(s, prefix) ==
    /\ Len(s) >= Len(prefix)
    /\ \A i \in 1..Len(prefix) : s[i] = prefix[i]

\* m[k] = v on a Go map
Put(m, k, v) == [x \in DOMAIN m \cup {k} |-> IF x = k THEN v ELSE m[x]]
\* v, _ := m[k] on a map of time.Time: the zero value when k is missing
Lookup(m, k) == IF k \in DOMAIN m THEN m[k] ELSE ZeroTime
EmptyMap == [x \in {} |-> 0]

\* ------------------------------------------------------------ input records
NsN == <<"n">>
NsM == <<"m">>
\* run-1 and run-10: one name a literal prefix of the other
NameR1 == <<"r", "1">>
NameR10 == <<"r", "1", "0">>
\* run-1-task-a, run-10-task-a
NameR1A == <<"r", "1", "a">>
NameR10A == <<"r", "1", "0", "a">>
\* run-1-task-a-pod, run-10-task-a-pod
NameR1AP == <<"r", "1", "a", "p">>
NameR10AP == <<"r", "1", "0", "a", "p">>

\* The windows of the records of the commands: all start at the first instant.
Intervals == {<<1, e>> : e \in Times}
\* Any start and any end that is not before it.
WideIntervals == {w \in Times \X Times : w[1] <= w[2]}

\* v1beta1.PipelineRun: what HasStarted(), IsDone() and the Status times give.
MkRun(ns, name, started, done, st, en) ==
    [ns |-> ns, name |-> name, hasStarted |-> started, isDone |-> done,
     startTime |-> st, completionTime |-> en]

PipelineRuns ==
    {MkRun(NsN, nm, TRUE, TRUE, iv[1], iv[2]) : nm \in {NameR1, NameR10}, iv \in Intervals}
    \cup {MkRun(NsN, NameR1, FALSE, FALSE, ZeroTime, ZeroTime),
          MkRun(NsN, NameR10, TRUE, FALSE, 1, ZeroTime)}

TaskRuns ==
    {MkRun(k[1], k[2], TRUE, TRUE, iv[1], iv[2]) :
        k \in {<<NsN, NameR1A>>, <<NsN, NameR10A>>, <<NsM, NameR1A>>}, iv \in Intervals}
    \cup {MkRun(NsN, NameR1A, FALSE, FALSE, ZeroTime, ZeroTime),
          MkRun(NsN, NameR10A, TRUE, FALSE, 1, ZeroTime)}

\* corev1.ContainerStatus: name and State.Terminated (nil when not terminated).
MkStatus(name, terminated, st, en) ==
    [name |-> name, terminated |-> terminated, startedAt |-> st, finishedAt |-> en]
Terminated(name, st, en) == MkStatus(name, TRUE, st, en)
Running(name) == MkStatus(name, FALSE, ZeroTime, ZeroTime)

\* corev1.Pod: Status.StartTime, Status.Phase, whether Labels holds
\* "tekton.dev/pipelineRun", Spec.Containers (names) and Status.ContainerStatuses.
MkPod(ns, name, st, phase, labelled, containers, statuses) ==
    [ns |-> ns, name |-> name, startTime |-> st, phase |-> phase, labelled |-> labelled,
     containers |-> containers, containerStatuses |-> statuses]

CInit == <<"i">>
CApp == <<"a">>
CLast == <<"z">>

\* Pods of the list commands: one container, started with the pod.
Pods ==
    {MkPod(NsN, nm, 1, "Succeeded", TRUE, <<CApp>>, <<Terminated(CApp, 1, f)>>) :
        nm \in {NameR1AP, NameR10AP}, f \in Times}
    \cup {MkPod(NsN, NameR1AP, 1, "Succeeded", FALSE, <<CApp>>, <<Terminated(CApp, 1, 2)>>),
          MkPod(NsN, NameR1AP, 1, "Running", TRUE, <<CApp>>, <<Running(CApp)>>),
          MkPod(NsN, NameR10AP, 1, "Failed", TRUE, <<CApp>>, <<Running(CApp)>>),
          MkPod(NsN, NameR10AP, NilTime, "Pending", TRUE, <<CApp>>, << >>)}

\* Sequences without repetition over the elements of S, of every length.
RECURSIVE Arrangements(_)
Arrangements(S) ==
    {<< >>} \cup UNION {{<<x>> \o rest : rest \in Arrangements(S \ {x})} : x \in S}

\* Pods of one multi-container pod: three containers in spec order, all admitted
\* at the pod's start, any subset of them with a status, listed in any order,
\* each status running or terminated at some time.
StatusChoices(c) == {Running(c)} \cup {Terminated(c, 1, f) : f \in Times}
RECURSIVE StatusLists(_)
StatusLists(names) ==
    IF names = << >> THEN {<< >>}
    ELSE {<<s>> \o rest : s \in StatusChoices(Head(names)), rest \in StatusLists(Tail(names))}
RichPods ==
    {MkPod(NsN, NameR1AP, 1, "Succeeded", TRUE, <<CInit, CApp, CLast>>, sl) :
        sl \in UNION {StatusLists(names) : names \in Arrangements({CInit, CApp, CLast})}}

\* ------------------------------------------------------------------- state
VARIABLES
    \* which build runs: "two-level" (package-level maps, key-prefix aggregation)
    \* or "three-level" (the chained pipeline run -> task run -> pod walk)
    mode,
    \* the command of this process and the --containers-only flag
    cmd, containerOnly,
    \* the prFilter argument the parse functions are called with
    filterArg,
    \* position: "pr", "tr", "pod" (inside that parse function's loop), "agg"
    \* (the three lists are parsed), "read" (three-level: unmarshalling), "done"
    pc,
    \* prList.Items, trList.Items, podList.Items: the records handed to the
    \* loops so far, in order
    prList, trList, podList,
    \* calls of the parse functions made by this process so far, and the
    \* number of records all of them were handed
    calls, handled,
    \* the package-level maps and slices
    prStartTimes, prEndTimes, prToDuration, prDurations, prDurationsMap,
    trStartTimes, trEndTimes, trToDuration, trDurations, trDurationsMap,
    podStartTimes, podEndTimes, podToDuration, podDurations, podDurationsMap,
    containerStartTimes, containerEndTimmes, containerToDuration,
    containerDurations, containerDurationsMap,
    \* what the parse functions returned: [S, F, I] parallel slices
    ret1, ret2, ret3,
    \* the lines the command printed
    rows,
    \* the paths filepath.Walk has handed to the callbacks of process*Files so
    \* far, each with what was found there, and the lines written to os.Stderr
    files, stderr

prVars == <<prStartTimes, prEndTimes, prToDuration, prDurations, prDurationsMap>>
trVars == <<trStartTimes, trEndTimes, trToDuration, trDurations, trDurationsMap>>
podVars == <<podStartTimes, podEndTimes, podToDuration, podDurations, podDurationsMap>>
containerVars == <<containerStartTimes, containerEndTimmes, containerToDuration,
                   containerDurations, containerDurationsMap>>
lists == <<prList, trList, podList>>
rets == <<ret1, ret2, ret3>>
vars == <<mode, cmd, containerOnly, filterArg, pc, lists, calls, handled,
          prVars, trVars, podVars, containerVars, rets, rows, files, stderr>>

NoRet == [S |-> << >>, F |-> << >>, I |-> << >>]

\* One kind's maps as a value: the five package-level variables of a kind.
Space(starts, ends, toDuration, durations, durationsMap) ==
    [starts |-> starts, ends |-> ends, toDuration |-> toDuration,
     durations |-> durations, durationsMap |-> durationsMap]
EmptySpace == Space(EmptyMap, EmptyMap, EmptyMap, << >>, {})
prSpace == Space(prStartTimes, prEndTimes, prToDuration, prDurations, prDurationsMap)
trSpace == Space(trStartTimes, trEndTimes, trToDuration, trDurations, trDurationsMap)
podSpace == Space(podStartTimes, podEndTimes, podToDuration, podDurations, podDurationsMap)
containerSpace == Space(containerStartTimes, containerEndTimmes, containerToDuration,
                        containerDurations, containerDurationsMap)

\* ------------------------------------------------------------- eligibility
\* A filter that admits every pipeline run whose key starts with it.
ignorePipelineRunPrefix(pr, prFilter) ==
    LET prKey == Sprintf(pr.ns, pr.name)
    IN \/ (Len(prFilter) > 0 /\ ~HasPrefix(prKey, prFilter))
       \/ ~pr.hasStarted
       \/ ~pr.isDone

\* ignorePipelineRun(pr, prFilter)
ignorePipelineRun(pr, prFilter) ==
    LET prKey == Sprintf(pr.ns, pr.name)
    IN \/ (Len(prFilter) > 0 /\ prKey # prFilter)
       \/ ~pr.hasStarted
       \/ ~pr.isDone

\* ignoreTaskRun without its IsDone test.
ignoreTaskRunStarted(tr, prFilter) ==
    LET trKey == Sprintf(tr.ns, tr.name)
    IN \/ ~tr.hasStarted
       \/ (Len(prFilter) > 0 /\ ~HasPrefix(trKey, prFilter))

\* ignoreTaskRun(tr, prFilter)
ignoreTaskRun(tr, prFilter) ==
    LET trKey == Sprintf(tr.ns, tr.name)
    IN \/ ~tr.hasStarted
       \/ ~tr.isDone
       \/ (Len(prFilter) > 0 /\ ~HasPrefix(trKey, prFilter))

\* ignorePod(pod, prFilter)
ignorePod(pod, prFilter) ==
    LET podKey == Sprintf(pod.ns, pod.name)
    IN \/ pod.startTime = NilTime
       \/ (pod.phase # "Succeeded" /\ pod.phase # "Failed")
       \/ ~pod.labelled
       \/ (Len(prFilter) > 0 /\ ~HasPrefix(podKey, prFilter))

\* -------------------------------------------------------------- extraction
\* The body shared by processPipelineRun, processTaskRun, processPod and the
\* loop of processContainers: store the duration, the window, and the duration
\* value if it is a new one.
Store(sp, key, st, en) ==
    LET duration == Sub(en, st)
    IN Space(Put(sp.starts, key, st),
             Put(sp.ends, key, en),
             Put(sp.toDuration, key, duration),
             IF duration \in sp.durationsMap THEN sp.durations
                                             ELSE Append(sp.durations, duration),
             sp.durationsMap \cup {duration})

\* processPipelineRun(pr), as a function of the pipeline-run maps
processPipelineRun(sp, pr) ==
    Store(sp, Sprintf(pr.ns, pr.name), pr.startTime, pr.completionTime)

\* processTaskRun(tr)
processTaskRun(sp, tr) ==
    Store(sp, Sprintf(tr.ns, tr.name), tr.startTime, tr.completionTime)

\* processPod: the loop over pod.Status.ContainerStatuses, from status i on
RECURSIVE terimnatedTime(_, _, _)
terimnatedTime(statuses, i, acc) ==
    IF i > Len(statuses) THEN acc
    ELSE LET status == statuses[i]
         IN terimnatedTime(statuses, i + 1,
                IF status.terminated /\ After(status.finishedAt, acc)
                THEN status.finishedAt ELSE acc)

\* processPod(pod)
processPod(sp, pod) ==
    Store(sp, Sprintf(pod.ns, pod.name), pod.startTime,
          terimnatedTime(pod.containerStatuses, 1, ZeroTime))

\* specNameToIndex / statusNameToIndex: name -> 0-based index, a later entry of
\* the same name overwriting an earlier one; 0 for a missing name (index, _ := m[name]).
RECURSIVE NameToIndex(_, _, _)
NameToIndex(names, name, i) ==
    IF i = 0 THEN 0
    ELSE IF names[i] = name THEN i - 1
    ELSE NameToIndex(names, name, i - 1)
specNameToIndex(pod, name) == NameToIndex(pod.containers, name, Len(pod.containers))
statusNameToIndex(pod, name) ==
    NameToIndex([i \in 1..Len(pod.containerStatuses) |-> pod.containerStatuses[i].name],
                name, Len(pod.containerStatuses))

\* processContainers: the start of the window of status cstatus
containerStarted(pod, cstatus) ==
    LET specIndex == specNameToIndex(pod, cstatus.name)
    IN IF specIndex # 0
       THEN LET priorContainerName == pod.containers[specIndex]
                priorContainerStatusIndex == statusNameToIndex(pod, priorContainerName)
                priorContainerStatus == pod.containerStatuses[priorContainerStatusIndex + 1]
            IN IF priorContainerStatus.terminated
               THEN priorContainerStatus.finishedAt
               ELSE cstatus.startedAt
       ELSE cstatus.startedAt

\* processContainers(pod): the loop over the statuses, from status i on
RECURSIVE processContainersFrom(_, _, _)
processContainersFrom(sp, pod, i) ==
    IF i > Len(pod.containerStatuses) THEN sp
    ELSE LET cstatus == pod.containerStatuses[i]
             ckey == SprintfContainer(pod.ns, pod.name, cstatus.name)
         IN processContainersFrom(
                IF ~cstatus.terminated THEN sp
                ELSE Store(sp, ckey, containerStarted(pod, cstatus), cstatus.finishedAt),
                pod, i + 1)
processContainers(sp, pod) == processContainersFrom(sp, pod, 1)

\* ------------------------------------------------------------- concurrency
\* Counted without its first test: the same window is no case of its own.
CountedOverlapOnly(start, end, st, en) == Before(start, en) /\ After(end, st)

\* Counted with closed windows: a window that ends when the other starts counts.
CountedClosed(start, end, st, en) ==
    IF Equal(start, st) /\ Equal(end, en) THEN TRUE
    ELSE ~After(start, en) /\ ~Before(end, st)

\* A test that counts a window only when it starts inside the key's window.
CountedStartInside(start, end, st, en) ==
    IF Equal(start, st) /\ Equal(end, en) THEN TRUE
    ELSE ~Before(start, st) /\ Before(start, en)

\* innerConcurrency: whether the loop counts key k (window start..end) for the
\* key whose window is st..en
Counted(start, end, st, en) ==
    IF Equal(start, st) /\ Equal(end, en) THEN TRUE
    ELSE Before(start, en) /\ After(end, st)

RECURSIVE innerLoop(_, _, _, _, _, _)
innerLoop(keys, starts, ends, st, en, total) ==
    IF keys = {} THEN total
    ELSE LET k == CHOOSE x \in keys : TRUE
         IN innerLoop(keys \ {k}, starts, ends, st, en,
                IF Counted(starts[k], Lookup(ends, k), st, en) THEN total + 1 ELSE total)

\* `for k, start := range starts` taken in the given order of the keys
RECURSIVE innerLoopIn(_, _, _, _, _, _, _)
innerLoopIn(order, key, starts, ends, st, en, total) ==
    IF order = << >> THEN total
    ELSE LET k == Head(order)
         IN innerLoopIn(Tail(order), key, starts, ends, st, en,
                IF k = key THEN total
                ELSE IF Equal(starts[k], st) /\ Equal(Lookup(ends, k), en) THEN total + 1
                ELSE IF Before(starts[k], en) /\ After(Lookup(ends, k), st) THEN total + 1
                ELSE total)

\* innerConcurrency with `concurrency := 0`: the others only.
innerConcurrencyOthers(key, starts, ends) ==
    innerLoop(DOMAIN starts \ {key}, starts, ends, Lookup(starts, key), Lookup(ends, key), 0)

\* innerConcurrency(key, starts, ends)
innerConcurrency(key, starts, ends) ==
    innerLoop(DOMAIN starts \ {key}, starts, ends, Lookup(starts, key), Lookup(ends, key), 1)

determinePRConcurrency(prKey) == innerConcurrency(prKey, prStartTimes, prEndTimes)
determineTRConcurrency(trKey) == innerConcurrency(trKey, trStartTimes, trEndTimes)
determinePodConcurrency(prKey) == innerConcurrency(prKey, podStartTimes, podEndTimes)
determineContainerConcurrency(ckey) ==
    innerConcurrency(ckey, containerStartTimes, containerEndTimmes)

\* ------------------------------------------------------------------ ranking
\* sort.Float64s: ascending, by insertion
RECURSIVE Insert(_, _)
Insert(sorted, x) ==
    IF sorted = << >> THEN <<x>>
    ELSE IF x <= Head(sorted) THEN <<x>> \o sorted
    ELSE <<Head(sorted)>> \o Insert(Tail(sorted), x)
\* sort.Float64s left out: the durations in the order they were first seen.
Unsorted(s) == s
RECURSIVE SortFloat64s(_)
SortFloat64s(s) == IF s = << >> THEN << >> ELSE Insert(SortFloat64s(Tail(s)), Head(s))

\* The pass without its `if value == duration` test: every key, at every value.
RangeMatchingAny(toDuration, d) ==
    {ks \in Arrangements(DOMAIN toDuration) : Len(ks) = Cardinality(DOMAIN toDuration)}

\* One `for key, value := range m` pass that keeps the keys of value d: Go
\* iterates a map in an unspecified order, so any order of those keys.
RangeMatching(toDuration, d) ==
    LET keys == {k \in DOMAIN toDuration : toDuration[k] = d}
    IN {ks \in Arrangements(keys) : Len(ks) = Cardinality(keys)}

\* One pass `for key := range toDuration` with no loop over the durations.
RankedKeysAnyOrder(durations, toDuration) ==
    {ks \in Arrangements(DOMAIN toDuration) : Len(ks) = Cardinality(DOMAIN toDuration)}

\* for _, duration := range durations { for key, value := range toDuration {...} }:
\* the key sequences the two loops can produce
RECURSIVE RankedKeys(_, _)
RankedKeys(durations, toDuration) ==
    IF durations = << >> THEN {<< >>}
    ELSE {ks \o rest : ks \in RangeMatching(toDuration, Head(durations)),
                       rest \in RankedKeys(Tail(durations), toDuration)}

\* retS, retF, retI for one order of the keys
Ret(keys, toDuration, starts, ends) ==
    [S |-> keys,
     F |-> [i \in 1..Len(keys) |-> toDuration[keys[i]]],
     I |-> [i \in 1..Len(keys) |-> innerConcurrency(keys[i], starts, ends)]]

\* -------------------------------------------------------------- aggregation
\* a / b on float64: the quotient in lowest terms, or what IEEE division by
\* zero gives
RECURSIVE Gcd(_, _)
Gcd(a, b) == IF b = 0 THEN a ELSE Gcd(b, a % b)
Abs(a) == IF a < 0 THEN -a ELSE a
\* A division that gives 0 where the divisor is 0.
QuotGuarded(a, b) ==
    IF b = 0 THEN [kind |-> "finite", num |-> 0, den |-> 1]
    ELSE LET g == Gcd(Abs(a), Abs(b))
             sign == IF b < 0 THEN -1 ELSE 1
         IN [kind |-> "finite", num |-> sign * (a \div g), den |-> sign * (b \div g)]
Quot(a, b) ==
    IF b = 0
    THEN [kind |-> (IF a = 0 THEN "NaN" ELSE IF a > 0 THEN "+Inf" ELSE "-Inf"),
          num |-> 0, den |-> 0]
    ELSE LET g == Gcd(Abs(a), Abs(b))
             sign == IF b < 0 THEN -1 ELSE 1
         IN [kind |-> "finite", num |-> sign * (a \div g), den |-> sign * (b \div g)]

\* prOwns(kidns, kidname, prns, prname)
prOwns(kidns, kidname, prns, prname) ==
    IF kidns # prns THEN FALSE
    ELSE IF ~HasPrefix(kidname, prname) THEN FALSE
    ELSE TRUE

\* The child test with an exact length: only a key one character longer.
IsChildNext(childKey, prkey) == HasPrefix(childKey, prkey) /\ Len(childKey) = Len(prkey) + 1

\* The aggregator's child test: if !strings.HasPrefix(childKey, prkey) { continue }
IsChild(childKey, prkey) == HasPrefix(childKey, prkey)

\* if retI[ii] > max { max = retI[ii] }
MaxOf(max, c) == IF c > max THEN c ELSE max

\* The task-run loop of ParseAllThreeLists, from index ii on.  acc holds
\* totalTRDuration, maxTRConcurrency and (for the record) the keys not skipped.
\* The task-run loop keeping the last child's duration instead of the sum.
RECURSIVE TaskRunLoopLast(_, _, _, _)
TaskRunLoopLast(prkey, ret, ii, acc) ==
    IF ii > Len(ret.S) THEN acc
    ELSE TaskRunLoopLast(prkey, ret, ii + 1,
            IF ~HasPrefix(ret.S[ii], prkey) THEN acc
            ELSE [total |-> ret.F[ii],
                  max |-> IF ret.I[ii] > acc.max THEN ret.I[ii] ELSE acc.max,
                  children |-> acc.children \cup {ret.S[ii]}])

RECURSIVE TaskRunLoop(_, _, _, _)
TaskRunLoop(prkey, ret, ii, acc) ==
    IF ii > Len(ret.S) THEN acc
    ELSE TaskRunLoop(prkey, ret, ii + 1,
            IF ~IsChild(ret.S[ii], prkey) THEN acc
            ELSE [total |-> acc.total + ret.F[ii],
                  max |-> MaxOf(acc.max, ret.I[ii]),
                  children |-> acc.children \cup {ret.S[ii]}])

\* The pod loop of ParseAllThreeLists: maxPodConcurrency is first increased by
\* retI3[iii], then compared with it.
RECURSIVE PodLoop(_, _, _, _)
PodLoop(prkey, ret, iii, acc) ==
    IF iii > Len(ret.S) THEN acc
    ELSE PodLoop(prkey, ret, iii + 1,
            IF ~IsChild(ret.S[iii], prkey) THEN acc
            ELSE [total |-> acc.total + ret.F[iii],
                  max |-> MaxOf(acc.max + ret.I[iii], ret.I[iii]),
                  children |-> acc.children \cup {ret.S[iii]}])

NoChildren == [total |-> 0, max |-> 0, children |-> {}]

\* A row whose pod columns are filled only when a task run matched the key.
AggregateRowChained(r1, r2, r3, i) ==
    LET prkey == r1.S[i]
        prDuration == r1.F[i]
        tr == TaskRunLoop(prkey, r2, 1, NoChildren)
        pod == IF tr.children = {} THEN NoChildren ELSE PodLoop(prkey, r3, 1, NoChildren)
    IN [key |-> prkey, duration |-> prDuration, concurrency |-> r1.I[i],
        trDuration |-> tr.total, trDelta |-> prDuration - tr.total,
        trPercent |-> Quot(tr.total, prDuration), trMaxConcurrency |-> tr.max,
        podDuration |-> pod.total, podDelta |-> prDuration - pod.total,
        podPercent |-> Quot(pod.total, prDuration), podMaxConcurrency |-> pod.max,
        trChildren |-> tr.children, podChildren |-> pod.children]

\* One printLine of ParseAllThreeLists: the row of retS1[i]
AggregateRow(r1, r2, r3, i) ==
    LET prkey == r1.S[i]
        prDuration == r1.F[i]
        tr == TaskRunLoop(prkey, r2, 1, NoChildren)
        pod == PodLoop(prkey, r3, 1, NoChildren)
    IN [key |-> prkey, duration |-> prDuration, concurrency |-> r1.I[i],
        trDuration |-> tr.total, trDelta |-> prDuration - tr.total,
        trPercent |-> Quot(tr.total, prDuration), trMaxConcurrency |-> tr.max,
        podDuration |-> pod.total, podDelta |-> prDuration - pod.total,
        podPercent |-> Quot(pod.total, prDuration), podMaxConcurrency |-> pod.max,
        trChildren |-> tr.children, podChildren |-> pod.children]

\* printList: one line per key
PrintList(ret) ==
    [i \in 1..Len(ret.S) |-> [key |-> ret.S[i], duration |-> ret.F[i], concurrency |-> ret.I[i]]]

\* ------------------------------------------------------------------ actions
SetPr(sp) ==
    /\ prStartTimes' = sp.starts /\ prEndTimes' = sp.ends /\ prToDuration' = sp.toDuration
    /\ prDurations' = sp.durations /\ prDurationsMap' = sp.durationsMap
SetTr(sp) ==
    /\ trStartTimes' = sp.starts /\ trEndTimes' = sp.ends /\ trToDuration' = sp.toDuration
    /\ trDurations' = sp.durations /\ trDurationsMap' = sp.durationsMap
SetPod(sp) ==
    /\ podStartTimes' = sp.starts /\ podEndTimes' = sp.ends /\ podToDuration' = sp.toDuration
    /\ podDurations' = sp.durations /\ podDurationsMap' = sp.durationsMap
SetContainer(sp) ==
    /\ containerStartTimes' = sp.starts /\ containerEndTimmes' = sp.ends
    /\ containerToDuration' = sp.toDuration
    /\ containerDurations' = sp.durations /\ containerDurationsMap' = sp.durationsMap

\* The position after a parse function returned to its command.
AfterParse(stage) ==
    IF cmd # "all" THEN "done"
    ELSE IF stage = "pr" THEN "tr" ELSE IF stage = "tr" THEN "pod" ELSE "agg"

\* parsePipelineRunList: one pass of `for _, pr := range prList.Items`
parsePipelineRunListLoop ==
    /\ mode = "two-level" /\ pc = "pr" /\ handled < MaxItems
    /\ \E pr \in PipelineRuns :
        /\ prList' = Append(prList, pr)
        /\ SetPr(IF ignorePipelineRun(pr, filterArg) THEN prSpace
                 ELSE processPipelineRun(prSpace, pr))
    /\ handled' = handled + 1
    /\ UNCHANGED <<mode, cmd, containerOnly, filterArg, files, stderr, pc, trList, podList, calls,
                   trVars, podVars, containerVars, rets, rows>>

\* parsePipelineRunList after the loop: sort, rank, return; the prlist command
\* prints what it got.
parsePipelineRunListReturn ==
    /\ mode = "two-level" /\ pc = "pr"
    /\ LET sorted == SortFloat64s(prDurations)
       IN /\ prDurations' = sorted
          /\ \E keys \in RankedKeys(sorted, prToDuration) :
                LET ret == Ret(keys, prToDuration, prStartTimes, prEndTimes)
                IN /\ ret1' = ret
                   /\ rows' = IF cmd = "all" THEN rows ELSE PrintList(ret)
    /\ pc' = AfterParse("pr")
    /\ UNCHANGED <<mode, cmd, containerOnly, filterArg, files, stderr, lists, calls, handled,
                   prStartTimes, prEndTimes, prToDuration, prDurationsMap,
                   trVars, podVars, containerVars, ret2, ret3>>

\* parseTaskRunList: one pass of `for _, tr := range trList.Items`
parseTaskRunListLoop ==
    /\ mode = "two-level" /\ pc = "tr" /\ handled < MaxItems
    /\ \E tr \in TaskRuns :
        /\ trList' = Append(trList, tr)
        /\ SetTr(IF ignoreTaskRun(tr, filterArg) THEN trSpace
                 ELSE processTaskRun(trSpace, tr))
    /\ handled' = handled + 1
    /\ UNCHANGED <<mode, cmd, containerOnly, filterArg, files, stderr, pc, prList, podList, calls,
                   prVars, podVars, containerVars, rets, rows>>

\* parseTaskRunList after the loop
parseTaskRunListReturn ==
    /\ mode = "two-level" /\ pc = "tr"
    /\ LET sorted == SortFloat64s(trDurations)
       IN /\ trDurations' = sorted
          /\ \E keys \in RankedKeys(sorted, trToDuration) :
                LET ret == Ret(keys, trToDuration, trStartTimes, trEndTimes)
                IN /\ ret2' = ret
                   /\ rows' = IF cmd = "all" THEN rows ELSE PrintList(ret)
    /\ pc' = AfterParse("tr")
    /\ UNCHANGED <<mode, cmd, containerOnly, filterArg, files, stderr, lists, calls, handled,
                   trStartTimes, trEndTimes, trToDuration, trDurationsMap,
                   prVars, podVars, containerVars, ret1, ret3>>

\* parsePodList: one pass of `for _, pod := range podList.Items`, the pod
\* drawn from PodSet, at most limit pods
parsePodListLoop(PodSet, limit) ==
    /\ mode = "two-level" /\ pc = "pod" /\ handled < limit
    /\ \E pod \in PodSet :
        /\ podList' = Append(podList, pod)
        /\ IF ignorePod(pod, filterArg)
           THEN UNCHANGED <<podVars, containerVars>>
           ELSE IF ~containerOnly
                THEN SetPod(processPod(podSpace, pod)) /\ UNCHANGED containerVars
                ELSE SetContainer(processContainers(containerSpace, pod))
                     /\ UNCHANGED podVars
    /\ handled' = handled + 1
    /\ UNCHANGED <<mode, cmd, containerOnly, filterArg, files, stderr, pc, prList, trList, calls,
                   prVars, trVars, rets, rows>>

\* parsePodList after the loop
parsePodListReturn ==
    /\ mode = "two-level" /\ pc = "pod"
    /\ IF ~containerOnly
       THEN LET sorted == SortFloat64s(podDurations)
            IN /\ podDurations' = sorted
               /\ \E keys \in RankedKeys(sorted, podToDuration) :
                    LET ret == Ret(keys, podToDuration, podStartTimes, podEndTimes)
                    IN /\ ret3' = ret
                       /\ rows' = IF cmd = "all" THEN rows ELSE PrintList(ret)
               /\ UNCHANGED <<containerDurations>>
       ELSE LET sorted == SortFloat64s(containerDurations)
            IN /\ containerDurations' = sorted
               /\ \E keys \in RankedKeys(sorted, containerToDuration) :
                    LET ret == Ret(keys, containerToDuration,
                                   containerStartTimes, containerEndTimmes)
                    IN /\ ret3' = ret
                       /\ rows' = IF cmd = "all" THEN rows ELSE PrintList(ret)
               /\ UNCHANGED <<podDurations>>
    /\ pc' = AfterParse("pod")
    /\ UNCHANGED <<mode, cmd, containerOnly, filterArg, files, stderr, lists, calls, handled,
                   podStartTimes, podEndTimes, podToDuration, podDurationsMap,
                   containerStartTimes, containerEndTimmes, containerToDuration,
                   containerDurationsMap, prVars, trVars, ret1, ret2>>

\* ParseAllThreeLists, two-level: the loop over retS1 after the three parses
ParseAllThreeLists ==
    /\ mode = "two-level" /\ pc = "agg"
    /\ rows' = [i \in 1..Len(ret1.S) |-> AggregateRow(ret1, ret2, ret3, i)]
    /\ pc' = "done"
    /\ UNCHANGED <<mode, cmd, containerOnly, filterArg, files, stderr, lists, calls, handled,
                   prVars, trVars, podVars, containerVars, rets>>

\* ------------------------------------------------- three-level build (main.go)
\* m[k] = m[k] + d, or m[k] = d when k is new
Add(m, k, d) == Put(m, k, IF k \in DOMAIN m THEN m[k] + d ELSE d)
\* v, _ := m[k] on a map of float64
LookupFloat(m, k) == IF k \in DOMAIN m THEN m[k] ELSE 0

\* for _, status := range pod.Status.ContainerStatuses { if terminated != nil
\* { duration = terminated.FinishedAt.Sub(pod.Status.StartTime.Time) } }
RECURSIVE LastTerminated(_, _, _, _)
LastTerminated(statuses, i, startTime, duration) ==
    IF i > Len(statuses) THEN duration
    ELSE LastTerminated(statuses, i + 1, startTime,
            IF statuses[i].terminated THEN Sub(statuses[i].finishedAt, startTime)
            ELSE duration)

\* The pod loop under one task run of ParseAllThreeLists (three-level).  acc
\* holds the variable `duration` and prToPodDurations.
RECURSIVE ChainedPods(_, _, _, _, _)
ChainedPods(pods, j, tr, prKey, acc) ==
    IF j > Len(pods) THEN acc
    ELSE LET pod == pods[j]
         IN ChainedPods(pods, j + 1, tr, prKey,
                IF \/ pod.ns # tr.ns
                   \/ ~HasPrefix(pod.name, tr.name)
                   \/ pod.startTime = NilTime
                   \/ (pod.phase # "Succeeded" /\ pod.phase # "Failed")
                THEN acc
                ELSE LET d == LastTerminated(pod.containerStatuses, 1, pod.startTime,
                                             acc.duration)
                     IN [acc EXCEPT !.duration = d,
                                    !.prToPodDurations = Add(@, prKey, d),
                                    !.pods = @ \cup {<<prKey, j>>}])

\* The task-run loop under one pipeline run of ParseAllThreeLists (three-level).
RECURSIVE ChainedTaskRuns(_, _, _, _, _, _)
ChainedTaskRuns(trs, pods, i, pr, prKey, acc) ==
    IF i > Len(trs) THEN acc
    ELSE LET tr == trs[i]
         IN ChainedTaskRuns(trs, pods, i + 1, pr, prKey,
                IF \/ tr.ns # pr.ns
                   \/ ~HasPrefix(tr.name, pr.name)
                   \/ ~tr.hasStarted
                   \/ ~tr.isDone
                THEN acc
                ELSE LET d == Sub(tr.completionTime, tr.startTime)
                     IN ChainedPods(pods, 1, tr, prKey,
                            [acc EXCEPT !.duration = d,
                                        !.prToTaskDurations = Add(@, prKey, d),
                                        !.trs = @ \cup {<<prKey, i>>}]))

\* The pipeline-run loop of ParseAllThreeLists (three-level).
RECURSIVE ChainedPipelineRuns(_, _, _, _, _)
ChainedPipelineRuns(prs, trs, pods, n, acc) ==
    IF n > Len(prs) THEN acc
    ELSE LET pr == prs[n]
         IN ChainedPipelineRuns(prs, trs, pods, n + 1,
                IF ~pr.hasStarted \/ ~pr.isDone THEN acc
                ELSE LET prKey == Sprintf(pr.ns, pr.name)
                         d == Sub(pr.completionTime, pr.startTime)
                     IN ChainedTaskRuns(trs, pods, 1, pr, prKey,
                            [acc EXCEPT
                                !.prToDuration = Put(@, prKey, d),
                                !.prDurations = IF d \in acc.prDurationsMap THEN @
                                                ELSE Append(@, d),
                                !.prDurationsMap = @ \cup {d},
                                !.duration = d]))

\* The local maps of ParseAllThreeLists (three-level) before the loops; trs and
\* pods record which list entries were added to which pipeline run's totals.
ChainedStart ==
    [prToDuration |-> EmptyMap, prToTaskDurations |-> EmptyMap,
     prToPodDurations |-> EmptyMap, prDurations |-> << >>, prDurationsMap |-> {},
     duration |-> 0, trs |-> {}, pods |-> {}]

\* One Fprintf of ParseAllThreeLists (three-level)
ChainedRow(acc, key) ==
    LET value == acc.prToDuration[key]
        taskTotal == LookupFloat(acc.prToTaskDurations, key)
        podTotal == LookupFloat(acc.prToPodDurations, key)
    IN [key |-> key, duration |-> value,
        trDuration |-> taskTotal, trDelta |-> value - taskTotal,
        trPercent |-> Quot(taskTotal, value),
        podDuration |-> podTotal, podDelta |-> value - podTotal,
        podPercent |-> Quot(podTotal, value),
        trChildren |-> {e[2] : e \in {x \in acc.trs : x[1] = key}},
        podChildren |-> {e[2] : e \in {x \in acc.pods : x[1] = key}}]

\* ParsePodList (three-level build): the loop over podList.Items, local maps
RECURSIVE PodListLoop(_, _, _)
PodListLoop(pods, j, acc) ==
    IF j > Len(pods) THEN acc
    ELSE LET pod == pods[j]
         IN PodListLoop(pods, j + 1,
                IF \/ pod.startTime = NilTime
                   \/ (pod.phase # "Succeeded" /\ pod.phase # "Failed")
                THEN acc
                ELSE LET d == LastTerminated(pod.containerStatuses, 1, pod.startTime, 0)
                     IN [podToDuration |-> Put(acc.podToDuration, Sprintf(pod.ns, pod.name), d),
                         durations |-> IF d \in acc.durationsMap THEN acc.durations
                                       ELSE Append(acc.durations, d),
                         durationsMap |-> acc.durationsMap \cup {d}])

\* json.Unmarshal of the lists, record by record: the three-level build reads
\* its whole input before it computes.
Unmarshal(PodSet, limit) ==
    /\ mode = "three-level" /\ pc = "read" /\ handled < limit
    /\ \/ /\ cmd = "all"
          /\ \E pr \in PipelineRuns : prList' = Append(prList, pr)
          /\ UNCHANGED <<trList, podList>>
       \/ /\ cmd = "all"
          /\ \E tr \in TaskRuns : trList' = Append(trList, tr)
          /\ UNCHANGED <<prList, podList>>
       \/ /\ \E pod \in PodSet : podList' = Append(podList, pod)
          /\ UNCHANGED <<prList, trList>>
    /\ handled' = handled + 1
    /\ UNCHANGED <<mode, cmd, containerOnly, filterArg, files, stderr, pc, calls,
                   prVars, trVars, podVars, containerVars, rets, rows>>

\* ParseAllThreeLists of the three-level build: loops, sort, print
ParseAllThreeListsChained ==
    /\ mode = "three-level" /\ pc = "read" /\ cmd = "all"
    /\ LET acc == ChainedPipelineRuns(prList, trList, podList, 1, ChainedStart)
       IN \E keys \in RankedKeys(SortFloat64s(acc.prDurations), acc.prToDuration) :
            rows' = [i \in 1..Len(keys) |-> ChainedRow(acc, keys[i])]
    /\ pc' = "done"
    /\ UNCHANGED <<mode, cmd, containerOnly, filterArg, files, stderr, lists, calls, handled,
                   prVars, trVars, podVars, containerVars, rets>>

\* ParsePodList of the three-level build
ParsePodList ==
    /\ mode = "three-level" /\ pc = "read" /\ cmd = "podlist"
    /\ LET acc == PodListLoop(podList, 1,
                      [podToDuration |-> EmptyMap, durations |-> << >>, durationsMap |-> {}])
       IN \E keys \in RankedKeys(SortFloat64s(acc.durations), acc.podToDuration) :
            rows' = [i \in 1..Len(keys) |->
                        [key |-> keys[i], duration |-> acc.podToDuration[keys[i]]]]
    /\ pc' = "done"
    /\ UNCHANGED <<mode, cmd, containerOnly, filterArg, files, stderr, lists, calls, handled,
                   prVars, trVars, podVars, containerVars, rets>>

\* A further call of the command's parse function in the same process, on a
\* new input: the package-level maps are what the earlier calls left.
CallAgain ==
    /\ mode = "two-level" /\ pc = "done" /\ cmd # "all" /\ calls < MaxCalls
    /\ calls' = calls + 1
    /\ UNCHANGED handled
    /\ pc' = (IF cmd = "prlist" THEN "pr" ELSE IF cmd = "trlist" THEN "tr" ELSE "pod")
    /\ prList' = << >> /\ trList' = << >> /\ podList' = << >>
    /\ ret1' = NoRet /\ ret2' = NoRet /\ ret3' = NoRet /\ rows' = << >>
    /\ UNCHANGED <<mode, cmd, containerOnly, filterArg, files, stderr, prVars, trVars, podVars, containerVars>>

\* ------------------------------------------------------------ specifications
FirstStage(m, c) ==
    IF m = "three-level" THEN "read"
    ELSE IF c = "trlist" THEN "tr" ELSE IF c = "podlist" THEN "pod" ELSE "pr"

InitArgs(modes, cmds, filters) ==
    /\ mode \in modes
    /\ cmd \in cmds
    /\ (mode = "three-level" => cmd \in {"podlist", "all"})
    /\ containerOnly \in (IF mode = "two-level" /\ cmd = "podlist" THEN BOOLEAN ELSE {FALSE})
    /\ pc = FirstStage(mode, cmd)
    /\ prList = << >> /\ trList = << >> /\ podList = << >>
    /\ calls = 1 /\ handled = 0
    /\ prStartTimes = EmptyMap /\ prEndTimes = EmptyMap /\ prToDuration = EmptyMap
    /\ prDurations = << >> /\ prDurationsMap = {}
    /\ trStartTimes = EmptyMap /\ trEndTimes = EmptyMap /\ trToDuration = EmptyMap
    /\ trDurations = << >> /\ trDurationsMap = {}
    /\ podStartTimes = EmptyMap /\ podEndTimes = EmptyMap /\ podToDuration = EmptyMap
    /\ podDurations = << >> /\ podDurationsMap = {}
    /\ containerStartTimes = EmptyMap /\ containerEndTimmes = EmptyMap
    /\ containerToDuration = EmptyMap
    /\ containerDurations = << >> /\ containerDurationsMap = {}
    /\ ret1 = NoRet /\ ret2 = NoRet /\ ret3 = NoRet
    /\ rows = << >>
    /\ files = << >> /\ stderr = << >>
    /\ filterArg \in filters

\* The commands call parsePipelineRunList(fileName, ""), parseTaskRunList(fileName, "")
\* and parsePodList(fileName, "").
InitWith(modes, cmds) == InitArgs(modes, cmds, {EmptyString})

\* One process, one command, either build.
Init == InitWith({"two-level", "three-level"}, {"prlist", "trlist", "podlist", "all"})

Next ==
    \/ parsePipelineRunListLoop
    \/ parsePipelineRunListReturn
    \/ parseTaskRunListLoop
    \/ parseTaskRunListReturn
    \/ parsePodListLoop(Pods, MaxItems)
    \/ parsePodListReturn
    \/ ParseAllThreeLists
    \/ Unmarshal(Pods, MaxItems)
    \/ ParseAllThreeListsChained
    \/ ParsePodList

Spec == Init /\ [][Next]_vars

\* The podlist command on one pod of several containers, either build.
InitPods == InitWith({"two-level", "three-level"}, {"podlist"})

NextPods ==
    \/ parsePodListLoop(RichPods, 1)
    \/ parsePodListReturn
    \/ Unmarshal(RichPods, 1)
    \/ ParsePodList

SpecPods == InitPods /\ [][NextPods]_vars

\* A process that calls the parse function of a list command more than once.
InitReuse == InitWith({"two-level"}, {"prlist", "trlist", "podlist"})

NextReuse ==
    \/ parsePipelineRunListLoop
    \/ parsePipelineRunListReturn
    \/ parseTaskRunListLoop
    \/ parseTaskRunListReturn
    \/ parsePodListLoop(Pods, MaxItems)
    \/ parsePodListReturn
    \/ CallAgain

SpecReuse == InitReuse /\ [][NextReuse]_vars

\* ------------------------------------------------ reading the input sources
\* What filepath.Walk hands the callback at one path, and what is found there:
\* "walkerr" (err != nil: the root or a directory cannot be accessed), "dir",
\* "unreadable" (os.ReadFile fails), "undecodable" (json.Unmarshal fails) or
\* "decoded" with the Items of the list, each with its Kind; a decoded file
\* holds any of the source's items, in any order.
Item(kind, obj) == [kind |-> kind, obj |-> obj]
Visit(outcome, items) == [outcome |-> outcome, items |-> items]

Visits(items) ==
    {Visit(o, << >>) : o \in {"walkerr", "dir", "unreadable", "undecodable"}}
    \cup {Visit("decoded", doc) : doc \in Arrangements(items)}

\* The items of the files of the sources: one that is analysed, one of the
\* requested kind that is not eligible, and one of another kind.
FilePipelineRuns ==
    {Item("PipelineRun", MkRun(NsN, NameR1, TRUE, TRUE, 1, 2)),
     Item("PipelineRun", MkRun(NsN, NameR10, TRUE, FALSE, 1, ZeroTime)),
     Item("TaskRun", MkRun(NsN, NameR1A, TRUE, TRUE, 1, 3))}
FileTaskRuns ==
    {Item("TaskRun", MkRun(NsN, NameR1A, TRUE, TRUE, 1, 2)),
     Item("TaskRun", MkRun(NsN, NameR10A, FALSE, FALSE, ZeroTime, ZeroTime)),
     Item("PipelineRun", MkRun(NsN, NameR1, TRUE, TRUE, 1, 3))}
FilePods ==
    {Item("Pod", MkPod(NsN, NameR1AP, 1, "Succeeded", TRUE, <<CApp>>,
                       <<Terminated(CApp, 1, 2)>>)),
     Item("Pod", MkPod(NsN, NameR10AP, 1, "Running", TRUE, <<CApp>>, <<Running(CApp)>>)),
     Item("TaskRun", MkPod(NsN, NameR1A, 1, "Succeeded", TRUE, <<CApp>>,
                           <<Terminated(CApp, 1, 3)>>))}

\* A loop without the Kind test: every item of the document is appended.
RECURSIVE ItemsOfAnyKind(_, _)
ItemsOfAnyKind(items, kind) ==
    IF items = << >> THEN << >>
    ELSE <<Head(items).obj>> \o ItemsOfAnyKind(Tail(items), kind)

\* for _, pr := range prl.Items { if pr.Kind != "PipelineRun" { continue }; append }
RECURSIVE ItemsOfKind(_, _)
ItemsOfKind(items, kind) ==
    IF items = << >> THEN << >>
    ELSE (IF Head(items).kind # kind THEN << >> ELSE <<Head(items).obj>>)
         \o ItemsOfKind(Tail(items), kind)

\* The callback of filepath.Walk in process*Files at one path: what it appends
\* to the list and what it writes to os.Stderr.  It returns nil in every case.
WalkFn(path, visit, kind) ==
    IF visit.outcome = "walkerr"
    THEN [items |-> << >>, stderr |-> <<[text |-> "filepath walk error", path |-> path]>>]
    ELSE IF visit.outcome = "dir" THEN [items |-> << >>, stderr |-> << >>]
    ELSE IF visit.outcome = "unreadable"
    THEN [items |-> << >>, stderr |-> <<[text |-> "problem reading", path |-> path]>>]
    ELSE IF visit.outcome = "undecodable" THEN [items |-> << >>, stderr |-> << >>]
    ELSE [items |-> ItemsOfKind(visit.items, kind), stderr |-> << >>]

\* What filepath.Walk returns to process*Files: the callback's error, nil.
WalkReturns == "nil"

\* The paths of one source visited so far
Visited(source) == {n \in 1..Len(files) : files[n].source = source}

\* The walk of a source goes on: it has not started, or its root (the first
\* path it visits) is a directory.
WalkGoesOn(source) ==
    \A n \in Visited(source) :
       (\A k \in Visited(source) : n <= k) => files[n].outcome = "dir"

\* One call of the callback, for the path the walk reaches next
WalkStep(source, visit, kind) ==
    LET path == <<source, Len(files) + 1>>
        out == WalkFn(path, visit, kind)
    IN /\ files' = Append(files, [source |-> source, path |-> path,
                                  outcome |-> visit.outcome, items |-> visit.items])
       /\ stderr' = stderr \o out.stderr
       /\ prList' = IF source = "pr" THEN prList \o out.items ELSE prList
       /\ trList' = IF source = "tr" THEN trList \o out.items ELSE trList
       /\ podList' = IF source = "pod" THEN podList \o out.items ELSE podList

\* processPRFiles: the walk reaches one more path
processPRFiles ==
    /\ mode = "two-level" /\ pc = "pr" /\ Len(files) < MaxFiles
    /\ WalkGoesOn("pr")
    /\ \E visit \in Visits(FilePipelineRuns) :
          WalkStep("pr", visit, "PipelineRun")
    /\ UNCHANGED <<mode, cmd, containerOnly, filterArg, pc, calls, handled,
                   prVars, trVars, podVars, containerVars, rets, rows>>

\* processTRFiles: the walk reaches one more path
processTRFiles ==
    /\ mode = "two-level" /\ pc = "tr" /\ Len(files) < MaxFiles
    /\ WalkGoesOn("tr")
    /\ \E visit \in Visits(FileTaskRuns) :
          WalkStep("tr", visit, "TaskRun")
    /\ UNCHANGED <<mode, cmd, containerOnly, filterArg, pc, calls, handled,
                   prVars, trVars, podVars, containerVars, rets, rows>>

\* processPodFiles: the walk reaches one more path
processPodFiles ==
    /\ mode = "two-level" /\ pc = "pod" /\ Len(files) < MaxFiles
    /\ WalkGoesOn("pod")
    /\ \E visit \in Visits(FilePods) :
          WalkStep("pod", visit, "Pod")
    /\ UNCHANGED <<mode, cmd, containerOnly, filterArg, pc, calls, handled,
                   prVars, trVars, podVars, containerVars, rets, rows>>

\* The loops of the parse functions over the whole list
RECURSIVE LoopPipelineRuns(_, _, _)
LoopPipelineRuns(sp, prs, i) ==
    IF i > Len(prs) THEN sp
    ELSE LoopPipelineRuns(IF ignorePipelineRun(prs[i], filterArg) THEN sp
                          ELSE processPipelineRun(sp, prs[i]), prs, i + 1)
RECURSIVE LoopTaskRuns(_, _, _)
LoopTaskRuns(sp, trs, i) ==
    IF i > Len(trs) THEN sp
    ELSE LoopTaskRuns(IF ignoreTaskRun(trs[i], filterArg) THEN sp
                      ELSE processTaskRun(sp, trs[i]), trs, i + 1)
RECURSIVE LoopPods(_, _, _)
LoopPods(sp, pods, i) ==
    IF i > Len(pods) THEN sp
    ELSE LoopPods(IF ignorePod(pods[i], filterArg) THEN sp
                  ELSE IF ~containerOnly THEN processPod(sp, pods[i])
                  ELSE processContainers(sp, pods[i]), pods, i + 1)

\* return []string{"ERROR: ..."}, nil, nil, false; the command writes the
\* message to os.Stderr and prints no row.
Failed(source) ==
    /\ stderr' = Append(stderr, [text |-> "ERROR: problem reading file",
                                 path |-> <<source, 0>>])
    /\ rows' = << >>
    /\ pc' = "done"

\* parsePipelineRunList once processPRFiles has returned: the error test, the
\* loop over prList.Items, sort, rank, return; the prlist command prints.
parsePipelineRunList ==
    /\ mode = "two-level" /\ pc = "pr" /\ Visited("pr") # {}
    /\ IF WalkReturns # "nil"
       THEN Failed("pr") /\ UNCHANGED <<prVars, ret1>>
       ELSE LET sp == LoopPipelineRuns(prSpace, prList, 1)
                sorted == SortFloat64s(sp.durations)
            IN /\ SetPr(Space(sp.starts, sp.ends, sp.toDuration, sorted, sp.durationsMap))
               /\ \E keys \in RankedKeys(sorted, sp.toDuration) :
                     LET ret == Ret(keys, sp.toDuration, sp.starts, sp.ends)
                     IN /\ ret1' = ret
                        /\ rows' = IF cmd = "all" THEN rows ELSE PrintList(ret)
               /\ pc' = AfterParse("pr")
               /\ UNCHANGED stderr
    /\ UNCHANGED <<mode, cmd, containerOnly, filterArg, files, lists, calls, handled,
                   trVars, podVars, containerVars, ret2, ret3>>

\* parseTaskRunList once processTRFiles has returned
parseTaskRunList ==
    /\ mode = "two-level" /\ pc = "tr" /\ Visited("tr") # {}
    /\ IF WalkReturns # "nil"
       THEN Failed("tr") /\ UNCHANGED <<trVars, ret2>>
       ELSE LET sp == LoopTaskRuns(trSpace, trList, 1)
                sorted == SortFloat64s(sp.durations)
            IN /\ SetTr(Space(sp.starts, sp.ends, sp.toDuration, sorted, sp.durationsMap))
               /\ \E keys \in RankedKeys(sorted, sp.toDuration) :
                     LET ret == Ret(keys, sp.toDuration, sp.starts, sp.ends)
                     IN /\ ret2' = ret
                        /\ rows' = IF cmd = "all" THEN rows ELSE PrintList(ret)
               /\ pc' = AfterParse("tr")
               /\ UNCHANGED stderr
    /\ UNCHANGED <<mode, cmd, containerOnly, filterArg, files, lists, calls, handled,
                   prVars, podVars, containerVars, ret1, ret3>>

\* parsePodList once processPodFiles has returned
parsePodList ==
    /\ mode = "two-level" /\ pc = "pod" /\ Visited("pod") # {}
    /\ IF WalkReturns # "nil"
       THEN Failed("pod") /\ UNCHANGED <<podVars, containerVars, ret3>>
       ELSE LET sp == LoopPods(IF containerOnly THEN containerSpace ELSE podSpace,
                               podList, 1)
                sorted == SortFloat64s(sp.durations)
                done == Space(sp.starts, sp.ends, sp.toDuration, sorted, sp.durationsMap)
            IN /\ IF containerOnly THEN SetContainer(done) /\ UNCHANGED podVars
                  ELSE SetPod(done) /\ UNCHANGED containerVars
               /\ \E keys \in RankedKeys(sorted, sp.toDuration) :
                     LET ret == Ret(keys, sp.toDuration, sp.starts, sp.ends)
                     IN /\ ret3' = ret
                        /\ rows' = IF cmd = "all" THEN rows ELSE PrintList(ret)
               /\ pc' = AfterParse("pod")
               /\ UNCHANGED stderr
    /\ UNCHANGED <<mode, cmd, containerOnly, filterArg, files, lists, calls, handled,
                   prVars, trVars, ret1, ret2>>

\* ------------------------------------- task runs whose names continue another's
\* run-1-task-a-b and its pod: a task run whose name starts with the name of
\* another task run of the same pipeline run.
NameR1AB == <<"r", "1", "a", "b">>
NameR1ABP == <<"r", "1", "a", "b", "p">>

\* Records the three lists hold together (SpecChained only).
MaxRecords == 4

NestedPipelineRuns ==
    {MkRun(NsN, NameR1, TRUE, TRUE, 1, 3),
     MkRun(NsN, NameR10, TRUE, TRUE, 1, 2),
     MkRun(NsN, NameR10, TRUE, FALSE, 1, ZeroTime)}
NestedTaskRuns ==
    {MkRun(NsN, nm, TRUE, TRUE, 1, 2) : nm \in {NameR1A, NameR1AB, NameR10A}}
    \cup {MkRun(NsN, NameR1AB, TRUE, FALSE, 1, ZeroTime)}
NestedPods ==
    {MkPod(NsN, nm, 1, "Succeeded", TRUE, <<CApp>>, <<Terminated(CApp, 1, 2)>>) :
        nm \in {NameR1AP, NameR1ABP, NameR10AP}}
    \cup {MkPod(NsN, NameR1AP, 1, "Running", TRUE, <<CApp>>, <<Running(CApp)>>)}

\* json.Unmarshal of the three lists of the `all` command, record by record
UnmarshalNested ==
    /\ mode = "three-level" /\ pc = "read" /\ cmd = "all" /\ handled < MaxRecords
    /\ \/ /\ \E pr \in NestedPipelineRuns : prList' = Append(prList, pr)
          /\ UNCHANGED <<trList, podList>>
       \/ /\ \E tr \in NestedTaskRuns : trList' = Append(trList, tr)
          /\ UNCHANGED <<prList, podList>>
       \/ /\ \E pod \in NestedPods : podList' = Append(podList, pod)
          /\ UNCHANGED <<prList, trList>>
    /\ handled' = handled + 1
    /\ UNCHANGED <<mode, cmd, containerOnly, filterArg, files, stderr, pc, calls,
                   prVars, trVars, podVars, containerVars, rets, rows>>

InitChained == InitWith({"three-level"}, {"all"})

NextChained ==
    \/ UnmarshalNested
    \/ ParseAllThreeListsChained

SpecChained == InitChained /\ [][NextChained]_vars

\* ------------------------------------------ namespaces and names of any text
\* Length of the namespaces and names (SpecKeys only).
MaxLen == 2
\* The characters of a namespace or name: a letter and the separator of the keys
Alphabet == {"r", ":"}
RECURSIVE StringsOf(_)
StringsOf(n) ==
    IF n = 0 THEN {<< >>}
    ELSE {<<c>> \o s : c \in Alphabet, s \in StringsOf(n - 1)}
Strings == UNION {StringsOf(n) : n \in 1..MaxLen}

\* The `all` command of the two-level build after its three parse functions
\* have returned, each from a list of one record: a pipeline run, and a task
\* run and a pod of one namespace and name.
InitKeys ==
    \E pns \in Strings, pname \in Strings, kns \in Strings, kname \in Strings :
       LET pr == MkRun(pns, pname, TRUE, TRUE, 1, 3)
           tr == MkRun(kns, kname, TRUE, TRUE, 1, 2)
           pod == MkPod(kns, kname, 1, "Succeeded", TRUE, <<CApp>>,
                        <<Terminated(CApp, 1, 2)>>)
           sp1 == processPipelineRun(EmptySpace, pr)
           sp2 == processTaskRun(EmptySpace, tr)
           sp3 == processPod(EmptySpace, pod)
       IN /\ mode = "two-level" /\ cmd = "all" /\ containerOnly = FALSE /\ pc = "agg"
          /\ filterArg = EmptyString
          /\ prList = <<pr>> /\ trList = <<tr>> /\ podList = <<pod>>
          /\ calls = 1 /\ handled = 3
          /\ prStartTimes = sp1.starts /\ prEndTimes = sp1.ends
          /\ prToDuration = sp1.toDuration
          /\ prDurations = sp1.durations /\ prDurationsMap = sp1.durationsMap
          /\ trStartTimes = sp2.starts /\ trEndTimes = sp2.ends
          /\ trToDuration = sp2.toDuration
          /\ trDurations = sp2.durations /\ trDurationsMap = sp2.durationsMap
          /\ podStartTimes = sp3.starts /\ podEndTimes = sp3.ends
          /\ podToDuration = sp3.toDuration
          /\ podDurations = sp3.durations /\ podDurationsMap = sp3.durationsMap
          /\ containerStartTimes = EmptyMap /\ containerEndTimmes = EmptyMap
          /\ containerToDuration = EmptyMap
          /\ containerDurations = << >> /\ containerDurationsMap = {}
          /\ ret1 = Ret(<<Sprintf(pns, pname)>>, sp1.toDuration, sp1.starts, sp1.ends)
          /\ ret2 = Ret(<<Sprintf(kns, kname)>>, sp2.toDuration, sp2.starts, sp2.ends)
          /\ ret3 = Ret(<<Sprintf(kns, kname)>>, sp3.toDuration, sp3.starts, sp3.ends)
          /\ rows = << >>
          /\ files = << >> /\ stderr = << >>

NextKeys == ParseAllThreeLists

SpecKeys == InitKeys /\ [][NextKeys]_vars

\* ------------------------------------------------------- the scope filter
\* The parse functions called with a prFilter argument: none, the key of a
\* pipeline run, the key of a pipeline run whose name continues another's,
\* and a string that no key equals but every key of the namespace starts with.
Filters == {EmptyString, Sprintf(NsN, NameR1), Sprintf(NsN, NameR10), <<"n", ":", "r">>}

InitFilter == InitArgs({"two-level"}, {"prlist", "trlist", "podlist"}, Filters)

NextFilter ==
    \/ parsePipelineRunListLoop
    \/ parsePipelineRunListReturn
    \/ parseTaskRunListLoop
    \/ parseTaskRunListReturn
    \/ parsePodListLoop(Pods, MaxItems)
    \/ parsePodListReturn

SpecFilter == InitFilter /\ [][NextFilter]_vars

\* The commands of the two-level build on sources read from the file system.
InitFiles == InitWith({"two-level"}, {"prlist", "trlist", "podlist", "all"})

NextFiles ==
    \/ processPRFiles
    \/ parsePipelineRunList
    \/ processTRFiles
    \/ parseTaskRunList
    \/ processPodFiles
    \/ parsePodList
    \/ ParseAllThreeLists

SpecFiles == InitFiles /\ [][NextFiles]_vars

\* The trlist command after its loop has stored any windows for any of the
\* task-run keys: the concurrency is then computed over those.
WideKeys == {<<NsN, NameR1A>>, <<NsN, NameR10A>>, <<NsM, NameR1A>>}

RECURSIVE SeqOfSet(_)
SeqOfSet(S) ==
    IF S = {} THEN << >>
    ELSE LET x == CHOOSE y \in S : TRUE IN <<x>> \o SeqOfSet(S \ {x})

RECURSIVE processTaskRuns(_, _, _)
processTaskRuns(sp, trs, i) ==
    IF i > Len(trs) THEN sp ELSE processTaskRuns(processTaskRun(sp, trs[i]), trs, i + 1)

InitWindowsOver(intervals) ==
    \E ks \in SUBSET WideKeys :
      \E w \in [ks -> intervals] :
        LET trs == SeqOfSet({MkRun(k[1], k[2], TRUE, TRUE, w[k][1], w[k][2]) : k \in ks})
            sp == processTaskRuns(EmptySpace, trs, 1)
        IN /\ mode = "two-level" /\ cmd = "trlist" /\ containerOnly = FALSE /\ pc = "tr"
           /\ prList = << >> /\ trList = trs /\ podList = << >>
           /\ calls = 1 /\ handled = Len(trs)
           /\ prStartTimes = EmptyMap /\ prEndTimes = EmptyMap /\ prToDuration = EmptyMap
           /\ prDurations = << >> /\ prDurationsMap = {}
           /\ trStartTimes = sp.starts /\ trEndTimes = sp.ends
           /\ trToDuration = sp.toDuration
           /\ trDurations = sp.durations /\ trDurationsMap = sp.durationsMap
           /\ podStartTimes = EmptyMap /\ podEndTimes = EmptyMap /\ podToDuration = EmptyMap
           /\ podDurations = << >> /\ podDurationsMap = {}
           /\ containerStartTimes = EmptyMap /\ containerEndTimmes = EmptyMap
           /\ containerToDuration = EmptyMap
           /\ containerDurations = << >> /\ containerDurationsMap = {}
           /\ ret1 = NoRet /\ ret2 = NoRet /\ ret3 = NoRet
           /\ rows = << >>
           /\ files = << >> /\ stderr = << >>
           /\ filterArg = EmptyString

InitWindows == InitWindowsOver(WideIntervals)

NextWindows == parseTaskRunListReturn

SpecWindows == InitWindows /\ [][NextWindows]_vars

\* The same over task runs whose completion time may also lie before their
\* start time: any two instants, one of them past the times of the other lists.
AnyIntervals == (1..MaxTime + 1) \X (1..MaxTime + 1)

InitSkewed == InitWindowsOver(AnyIntervals)

NextSkewed == parseTaskRunListReturn

SpecSkewed == InitSkewed /\ [][NextSkewed]_vars

\* ------------------------------------------- vocabulary of the properties
Range(s) == {s[i] : i \in 1..Len(s)}
Remove(m, k) == [x \in DOMAIN m \ {k} |-> m[x]]
KeyOf(r) == Sprintf(r.ns, r.name)

\* Windows j and k, from maps of one kind.
Identical(starts, ends, j, k) == starts[j] = starts[k] /\ ends[j] = ends[k]
HalfOpenOverlap(starts, ends, j, k) == starts[k] < ends[j] /\ starts[j] < ends[k]
Disjoint(starts, ends, j, k) == ends[j] <= starts[k] \/ ends[k] <= starts[j]

\* j is counted in the concurrency of k: without j the count of k is another.
CountedIn(starts, ends, j, k) ==
    innerConcurrency(k, starts, ends) # innerConcurrency(k, Remove(starts, j), Remove(ends, j))

\* The flat results returned so far, each with the maps it was computed from.
FlatResults ==
    {<<ret1, prStartTimes, prEndTimes>>, <<ret2, trStartTimes, trEndTimes>>}
    \cup (IF containerOnly THEN {<<ret3, containerStartTimes, containerEndTimmes>>}
          ELSE {<<ret3, podStartTimes, podEndTimes>>})

\* The example of the specification: A=[0,10], B=[5,15], C=[20,25].
ExampleA == <<"A">>
ExampleB == <<"B">>
ExampleC == <<"C">>
ExampleStarts == [k \in {ExampleA, ExampleB, ExampleC} |->
                    IF k = ExampleA THEN 0 ELSE IF k = ExampleB THEN 5 ELSE 20]
ExampleEnds == [k \in {ExampleA, ExampleB, ExampleC} |->
                    IF k = ExampleA THEN 10 ELSE IF k = ExampleB THEN 15 ELSE 25]
TwinStarts == [k \in {ExampleA, ExampleB} |-> 10]
TwinEnds == [k \in {ExampleA, ExampleB} |-> 20]

\* C1: every reported concurrency is 1 plus the number of other keys of the
\* kind whose window is identical to the key's or overlaps it half-open; the
\* specification's examples give 2, 2, 1 and 2, 2.
C1_ConcurrencyCount ==
    /\ \A fr \in FlatResults :
         \A i \in 1..Len(fr[1].S) :
            LET k == fr[1].S[i]
                others == {j \in DOMAIN fr[2] \ {k} :
                             \/ Identical(fr[2], fr[3], j, k)
                             \/ HalfOpenOverlap(fr[2], fr[3], j, k)}
            IN fr[1].I[i] = 1 + Cardinality(others)
    /\ innerConcurrency(ExampleA, ExampleStarts, ExampleEnds) = 2
    /\ innerConcurrency(ExampleB, ExampleStarts, ExampleEnds) = 2
    /\ innerConcurrency(ExampleC, ExampleStarts, ExampleEnds) = 1
    /\ innerConcurrency(ExampleA, TwinStarts, TwinEnds) = 2
    /\ innerConcurrency(ExampleB, TwinStarts, TwinEnds) = 2

\* Three task runs were ranked: two that overlap without being identical, and
\* one that neither meets.
C1_Witness ==
    /\ pc = "done" /\ Len(ret2.S) = 3
    /\ \E i, j, l \in 1..3 :
         /\ ret2.I[i] = 2 /\ ret2.I[j] = 2 /\ ret2.I[l] = 1
         /\ i # j
         /\ ~Identical(trStartTimes, trEndTimes, ret2.S[i], ret2.S[j])
         /\ HalfOpenOverlap(trStartTimes, trEndTimes, ret2.S[i], ret2.S[j])

\* C2 as stated: two distinct keys with disjoint windows (A.end <= B.start or
\* B.end <= A.start), zero-length and coincident ones included, are not
\* counted in each other's concurrency.
C2_DisjointNeverCounted ==
    \A fr \in FlatResults :
       \A j, k \in Range(fr[1].S) :
          (j # k /\ Disjoint(fr[2], fr[3], j, k))
             => ~CountedIn(fr[2], fr[3], j, k) /\ ~CountedIn(fr[2], fr[3], k, j)

\* C2 as amended: two distinct keys with disjoint windows that are not the
\* same window are not counted in each other's concurrency; two distinct keys
\* with the same window count each other, also when that window is empty.
C2_DisjointDistinctWindowsNotCounted ==
    \A fr \in FlatResults :
       \A j, k \in Range(fr[1].S) :
          j # k =>
            /\ (Disjoint(fr[2], fr[3], j, k) /\ ~Identical(fr[2], fr[3], j, k))
                  => ~CountedIn(fr[2], fr[3], j, k) /\ ~CountedIn(fr[2], fr[3], k, j)
            /\ Identical(fr[2], fr[3], j, k)
                  => CountedIn(fr[2], fr[3], j, k) /\ CountedIn(fr[2], fr[3], k, j)

\* Two task runs whose windows touch (one ends when the other starts) and one
\* with an empty window were ranked.
C2_Witness ==
    /\ pc = "done"
    /\ \E j, k \in Range(ret2.S) :
         /\ j # k
         /\ trEndTimes[j] = trStartTimes[k]
         /\ trStartTimes[j] < trEndTimes[j] /\ trStartTimes[k] < trEndTimes[k]
    /\ \E j, k \in Range(ret2.S) :
         /\ j # k
         /\ trStartTimes[j] = trEndTimes[j]
         /\ Disjoint(trStartTimes, trEndTimes, j, k)
         /\ ~Identical(trStartTimes, trEndTimes, j, k)

\* ------------------------------------------ eligibility, as the records show it
StartedAndDone(r) == r.hasStarted /\ r.isDone
StartedAndTerminal(pod) == pod.startTime # NilTime /\ pod.phase \in {"Succeeded", "Failed"}
EligiblePod(pod) == StartedAndTerminal(pod) /\ pod.labelled
TerminatedStatuses(pod) ==
    {i \in 1..Len(pod.containerStatuses) : pod.containerStatuses[i].terminated}

PrKeys == {KeyOf(r) : r \in {x \in Range(prList) : StartedAndDone(x)}}
TrKeys == {KeyOf(r) : r \in {x \in Range(trList) : StartedAndDone(x)}}
PodKeys == {KeyOf(p) : p \in {x \in Range(podList) : StartedAndTerminal(x)}}
ContainerKeys ==
    UNION {{SprintfContainer(p.ns, p.name, p.containerStatuses[i].name) :
               i \in TerminatedStatuses(p)} :
           p \in {x \in Range(podList) : StartedAndTerminal(x)}}

\* The keys a row of the command's output may show.
RowKeys ==
    IF cmd \in {"prlist", "all"} THEN PrKeys
    ELSE IF cmd = "trlist" THEN TrKeys
    ELSE IF containerOnly THEN ContainerKeys ELSE PodKeys

\* C3: every key of a flat result, of a kind's maps and of an output row has a
\* record in the input that is started and terminal (for a container: a
\* terminated status in such a pod), and every child added to a row's totals
\* and maximum is such a record.
C3_IneligibleNeverAppear ==
    /\ Range(ret1.S) \cup DOMAIN prStartTimes \subseteq PrKeys
    /\ Range(ret2.S) \cup DOMAIN trStartTimes \subseteq TrKeys
    /\ DOMAIN podStartTimes \subseteq PodKeys
    /\ DOMAIN containerStartTimes \subseteq ContainerKeys
    /\ Range(ret3.S) \subseteq (IF containerOnly THEN ContainerKeys ELSE PodKeys)
    /\ \A i \in 1..Len(rows) :
         /\ rows[i].key \in RowKeys
         /\ (cmd = "all" /\ mode = "two-level") =>
               /\ rows[i].trChildren \subseteq TrKeys
               /\ rows[i].podChildren \subseteq PodKeys
         /\ (cmd = "all" /\ mode = "three-level") =>
               /\ \A j \in rows[i].trChildren : StartedAndDone(trList[j])
               /\ \A j \in rows[i].podChildren : StartedAndTerminal(podList[j])

\* The aggregate was printed with a row that has a child, from an input that
\* also held a task run of that pipeline run's prefix that is not done.
C3_Witness ==
    /\ pc = "done" /\ cmd = "all"
    /\ \E i \in 1..Len(rows) :
         /\ rows[i].trChildren # {}
         /\ \E tr \in Range(trList) :
              /\ ~StartedAndDone(tr)
              /\ HasPrefix(KeyOf(tr), rows[i].key)

\* --------------------------------------------------- durations, as the records show them
RunDuration(r) == Sub(r.completionTime, r.startTime)
LatestFinishedAt(pod) ==
    LET f == {pod.containerStatuses[i].finishedAt : i \in TerminatedStatuses(pod)}
    IN IF f = {} THEN ZeroTime ELSE CHOOSE m \in f : \A x \in f : x <= m
PodDuration(pod) == Sub(LatestFinishedAt(pod), pod.startTime)

\* The last record of a list with this key among those that satisfy E.
LastOf(list, key, E(_)) ==
    LET is == {i \in 1..Len(list) : KeyOf(list[i]) = key /\ E(list[i])}
    IN list[CHOOSE i \in is : \A j \in is : j <= i]

\* Which flat results the command has by now.
Returned1 == mode = "two-level" /\ cmd \in {"prlist", "all"} /\ pc # "pr"
Returned2 == mode = "two-level" /\ cmd \in {"trlist", "all"} /\ pc \notin {"pr", "tr"}
Returned3 == mode = "two-level" /\ cmd \in {"podlist", "all"} /\ pc \notin {"pr", "tr", "pod"}

\* A flat result over exactly these keys, each once, durations never descending.
Ranked(ret, keys) ==
    /\ Len(ret.F) = Len(ret.S) /\ Len(ret.I) = Len(ret.S)
    /\ \A i, j \in 1..Len(ret.S) : i < j => ret.F[i] <= ret.F[j] /\ ret.S[i] # ret.S[j]
    /\ Range(ret.S) = keys

\* C6: a flat result holds every eligible key exactly once, in groups of equal
\* duration that ascend, each key with the duration of its own (last) eligible
\* record; this for lists with equal durations and with repeated keys.
C6_RankedFlatResult ==
    /\ Returned1 =>
         /\ Ranked(ret1, PrKeys)
         /\ \A i \in 1..Len(ret1.S) :
               ret1.F[i] = RunDuration(LastOf(prList, ret1.S[i], StartedAndDone))
    /\ Returned2 =>
         /\ Ranked(ret2, TrKeys)
         /\ \A i \in 1..Len(ret2.S) :
               ret2.F[i] = RunDuration(LastOf(trList, ret2.S[i], StartedAndDone))
    /\ (Returned3 /\ ~containerOnly) =>
         /\ Ranked(ret3, {KeyOf(p) : p \in {x \in Range(podList) : EligiblePod(x)}})
         /\ \A i \in 1..Len(ret3.S) :
               ret3.F[i] = PodDuration(LastOf(podList, ret3.S[i], EligiblePod))
    /\ (Returned3 /\ containerOnly) =>
         /\ Ranked(ret3, UNION {{SprintfContainer(p.ns, p.name, p.containerStatuses[i].name) :
                                    i \in TerminatedStatuses(p)} :
                                p \in {x \in Range(podList) : EligiblePod(x)}})
         /\ \A i \in 1..Len(ret3.S) :
               ret3.F[i] = containerEndTimmes[ret3.S[i]] - containerStartTimes[ret3.S[i]]

\* The trlist command ranked a list in which one key occurred twice with two
\* durations, and got two keys in one group of equal duration.
C6_Witness ==
    /\ pc = "done" /\ cmd = "trlist" /\ Len(ret2.S) = 2
    /\ ret2.F[1] = ret2.F[2]
    /\ \E i, j \in 1..Len(trList) :
         /\ i < j /\ KeyOf(trList[i]) = KeyOf(trList[j])
         /\ StartedAndDone(trList[i]) /\ StartedAndDone(trList[j])
         /\ RunDuration(trList[i]) # RunDuration(trList[j])

\* C4 as stated: the end recorded for an eligible pod with a terminated status
\* is the latest finishedAt among its terminated statuses, whatever their
\* order, and its duration is that instant minus the pod's start.
C4_PodEndsAtLatestFinish ==
    (pc = "done" /\ ~containerOnly) =>
       \A pod \in Range(podList) :
          (EligiblePod(pod) /\ TerminatedStatuses(pod) # {}) =>
             /\ mode = "two-level" => podEndTimes[KeyOf(pod)] = LatestFinishedAt(pod)
             /\ \E i \in 1..Len(rows) :
                   /\ rows[i].key = KeyOf(pod)
                   /\ rows[i].duration = LatestFinishedAt(pod) - pod.startTime

\* The status of a container of the pod's spec, if a terminated one is listed.
TerminatedStatusOf(pod, cname) ==
    {s \in Range(pod.containerStatuses) : s.name = cname /\ s.terminated}

\* C5 as stated, read in the code's favour where the preceding container has no
\* finishedAt: the window of a container with a terminated status ends at its
\* finishedAt; it starts at its own startedAt if it is first in the spec, and
\* otherwise at the finishedAt of the container before it in the spec (at its
\* own startedAt when that container has not terminated).
C5_ContainerWindow ==
    (pc = "done" /\ containerOnly) =>
       \A pod \in Range(podList) :
          EligiblePod(pod) =>
             \A i \in TerminatedStatuses(pod) :
                LET cstatus == pod.containerStatuses[i]
                    ckey == SprintfContainer(pod.ns, pod.name, cstatus.name)
                    pos == CHOOSE n \in 1..Len(pod.containers) :
                              pod.containers[n] = cstatus.name
                    prior == TerminatedStatusOf(pod, pod.containers[pos - 1])
                IN /\ containerEndTimmes[ckey] = cstatus.finishedAt
                   /\ pos = 1 => containerStartTimes[ckey] = cstatus.startedAt
                   /\ (pos > 1 /\ prior # {}) =>
                         \E s \in prior : containerStartTimes[ckey] = s.finishedAt
                   /\ (pos > 1 /\ prior = {}) =>
                         containerStartTimes[ckey] = cstatus.startedAt

\* ----------------------------------------------------- children, as the records show them
StartsWith(s, prefix) == Len(prefix) <= Len(s) /\ SubSeq(s, 1, Len(prefix)) = prefix
Owns(kid, pr) == kid.ns = pr.ns /\ StartsWith(kid.name, pr.name)

\* The positions in a flat result of the children of the pipeline run prkey.
ChildrenIn(ret, list, E(_), prkey) ==
    {j \in 1..Len(ret.S) :
        \E kid \in Range(list), pr \in Range(prList) :
           /\ E(kid) /\ KeyOf(kid) = ret.S[j]
           /\ StartedAndDone(pr) /\ KeyOf(pr) = prkey
           /\ Owns(kid, pr)}
MaxSet(S) == IF S = {} THEN 0 ELSE CHOOSE m \in S : \A x \in S : x <= m
RECURSIVE SumOver(_, _)
SumOver(S, f) ==
    IF S = {} THEN 0
    ELSE LET x == CHOOSE y \in S : TRUE IN f[x] + SumOver(S \ {x}, f)

AggregateDone == mode = "two-level" /\ cmd = "all" /\ pc = "done"

\* C7 as stated: the maximum child concurrency of a row, for task runs and for
\* pods, is the largest concurrency among the children matched to the row's
\* pipeline run, and 0 when it has none.
C7_MaxChildConcurrency ==
    AggregateDone =>
       \A i \in 1..Len(rows) :
          LET trKids == ChildrenIn(ret2, trList, StartedAndDone, rows[i].key)
              podKids == ChildrenIn(ret3, podList, EligiblePod, rows[i].key)
          IN /\ rows[i].trMaxConcurrency = MaxSet({ret2.I[j] : j \in trKids})
             /\ rows[i].podMaxConcurrency = MaxSet({ret3.I[j] : j \in podKids})

\* The example of the specification: a parent of duration 100 with children of
\* durations 30 and 40.
ExampleKids ==
    [S |-> <<Sprintf(NsN, NameR1A), Sprintf(NsN, NameR10A)>>, F |-> <<30, 40>>, I |-> <<1, 1>>]
ExampleParent == [S |-> <<Sprintf(NsN, NameR1)>>, F |-> <<100>>, I |-> <<1>>]
ExampleRow == AggregateRow(ExampleParent, ExampleKids, NoRet, 1)

\* C8: in a row of the aggregate the child total of a kind is the sum of the
\* durations of the children matched to the pipeline run, the delta is the
\* run's duration minus that total, and the percentage is the total divided by
\* the run's duration; 100 with children 30 and 40 gives 70, 30 and 7/10.
C8_ChildTotalDeltaPercentage ==
    /\ AggregateDone =>
         \A i \in 1..Len(rows) :
            LET row == rows[i]
                D == RunDuration(LastOf(prList, row.key, StartedAndDone))
                trTotal == SumOver(ChildrenIn(ret2, trList, StartedAndDone, row.key), ret2.F)
                podTotal == SumOver(ChildrenIn(ret3, podList, EligiblePod, row.key), ret3.F)
            IN /\ row.duration = D
               /\ row.trDuration = trTotal /\ row.trDelta = D - trTotal
               /\ row.podDuration = podTotal /\ row.podDelta = D - podTotal
               /\ D # 0 =>
                    /\ row.trPercent.kind = "finite" /\ row.podPercent.kind = "finite"
                    /\ row.trPercent.num * D = trTotal * row.trPercent.den
                    /\ row.podPercent.num * D = podTotal * row.podPercent.den
    /\ ExampleRow.trDuration = 70 /\ ExampleRow.trDelta = 30
    /\ ExampleRow.trPercent = [kind |-> "finite", num |-> 7, den |-> 10]

\* A row was printed for a pipeline run with two task runs whose durations add
\* up to more than its own.
C8_Witness ==
    /\ AggregateDone
    /\ \E i \in 1..Len(rows) :
         /\ Cardinality(rows[i].trChildren) = 2
         /\ rows[i].trDelta < 0 /\ rows[i].duration > 0

\* C9: a task run or pod is added to a pipeline run's row exactly when its
\* namespace is the run's and its name starts with the run's name; so run-1
\* takes run-1-task-a and run-10-task-a of its namespace, and neither of them
\* from another namespace.
C9_OwnershipByPrefix ==
    /\ AggregateDone =>
         \A i \in 1..Len(rows) :
            \A pr \in Range(prList) :
               (StartedAndDone(pr) /\ KeyOf(pr) = rows[i].key) =>
                  /\ \A tr \in Range(trList) :
                        StartedAndDone(tr) =>
                           (KeyOf(tr) \in rows[i].trChildren <=> Owns(tr, pr))
                  /\ \A pod \in Range(podList) :
                        EligiblePod(pod) =>
                           (KeyOf(pod) \in rows[i].podChildren <=> Owns(pod, pr))
    /\ IsChild(Sprintf(NsN, NameR1A), Sprintf(NsN, NameR1))
    /\ IsChild(Sprintf(NsN, NameR10A), Sprintf(NsN, NameR1))
    /\ ~IsChild(Sprintf(NsM, NameR1A), Sprintf(NsN, NameR1))
    /\ ~IsChild(Sprintf(NsM, NameR10A), Sprintf(NsN, NameR1))

\* The row of run-1 was printed from an input with run-10's task run in its
\* namespace and its own task run's namesake in another namespace.
C9_Witness ==
    /\ AggregateDone
    /\ \E i \in 1..Len(rows) :
         /\ rows[i].key = Sprintf(NsN, NameR1)
         /\ Sprintf(NsN, NameR10A) \in rows[i].trChildren
         /\ Sprintf(NsM, NameR1A) \in Range(ret2.S) \ rows[i].trChildren

\* C10 as stated: what a list operation returns holds only keys of eligible
\* records of the list it was called on, whatever was parsed before it in the
\* process.
C10_ResultFromOwnInput ==
    pc = "done" =>
       /\ cmd = "prlist" => Range(ret1.S) \subseteq PrKeys
       /\ cmd = "trlist" => Range(ret2.S) \subseteq TrKeys
       /\ cmd = "podlist" =>
             Range(ret3.S) \subseteq (IF containerOnly THEN ContainerKeys ELSE PodKeys)

\* ----------------------------------------------------- the input sources
\* The paths at which a source could not be accessed.
Inaccessible == {n \in 1..Len(files) : files[n].outcome \in {"walkerr", "unreadable"}}

\* C11 as stated: when a path of an input source cannot be accessed, the
\* command tells the caller which one (a line on os.Stderr naming the path)
\* and prints no result row, flat or aggregate.
C11_InaccessibleSourceAborts ==
    (pc = "done" /\ Inaccessible # {}) =>
       /\ \A n \in Inaccessible : \E m \in Range(stderr) : m.path = files[n].path
       /\ rows = << >>

\* ------------------------------------------------------- the aggregate rows
\* C12: the aggregate of the `all` command, in either build, has exactly one
\* row for every eligible pipeline run of the input and no other row, and the
\* rows ascend in the pipeline runs' durations.
C12_OneRowPerPipelineRun ==
    (cmd = "all" /\ pc = "done") =>
       /\ {rows[i].key : i \in 1..Len(rows)} = PrKeys
       /\ \A i, j \in 1..Len(rows) :
             i < j => rows[i].key # rows[j].key /\ rows[i].duration <= rows[j].duration
       /\ \A i \in 1..Len(rows) :
             rows[i].duration = RunDuration(LastOf(prList, rows[i].key, StartedAndDone))

\* The aggregate was printed for an input of two eligible pipeline runs of
\* different durations, the longer one listed first, and one that is not done.
C12_Witness ==
    /\ cmd = "all" /\ pc = "done" /\ Len(rows) = 2 /\ Len(prList) = 3
    /\ rows[1].duration < rows[2].duration
    /\ \E i, j, k \in 1..3 :
         /\ i < j
         /\ KeyOf(prList[i]) = rows[2].key /\ KeyOf(prList[j]) = rows[1].key
         /\ StartedAndDone(prList[i]) /\ StartedAndDone(prList[j])
         /\ ~StartedAndDone(prList[k])

\* C13: every concurrency reported in a flat result or in a row is an integer
\* that is at least 1, whatever was extracted before and whatever the windows
\* (empty ones included).
C13_ConcurrencyAtLeastOne ==
    /\ \A ret \in {ret1, ret2, ret3} :
          \A i \in 1..Len(ret.I) : ret.I[i] \in Nat /\ ret.I[i] >= 1
    /\ \A i \in 1..Len(rows) :
          "concurrency" \in DOMAIN rows[i] =>
             rows[i].concurrency \in Nat /\ rows[i].concurrency >= 1

\* A key with an empty window was ranked together with another key and was
\* reported with concurrency 1.
C13_Witness ==
    /\ pc = "done" /\ Len(rows) >= 2
    /\ \E i \in 1..Len(rows) :
         /\ "concurrency" \in DOMAIN rows[i]
         /\ rows[i].duration = 0 /\ rows[i].concurrency = 1

\* ---------------------------------------------------------- the pod label
\* The pods of the input without the pipeline-run label that have started and
\* are in a terminal phase, and the keys that only such pods have.
Unlabelled == {n \in 1..Len(podList) : StartedAndTerminal(podList[n]) /\ ~podList[n].labelled}
UnlabelledKeys ==
    {KeyOf(podList[n]) : n \in Unlabelled}
    \ {KeyOf(p) : p \in {x \in Range(podList) : EligiblePod(x)}}

\* C14 as stated: a pod without the pipeline-run label appears in no flat pod
\* result and in no row of the podlist command, and adds to no pipeline run's
\* pod total or pod maximum, in either build.
C14_UnlabelledPodExcluded ==
    /\ ~containerOnly => Range(ret3.S) \cap UnlabelledKeys = {}
    /\ (pc = "done" /\ cmd = "podlist" /\ ~containerOnly) =>
          \A i \in 1..Len(rows) : rows[i].key \notin UnlabelledKeys
    /\ (pc = "done" /\ cmd = "all" /\ mode = "two-level") =>
          \A i \in 1..Len(rows) : rows[i].podChildren \cap UnlabelledKeys = {}
    /\ (pc = "done" /\ cmd = "all" /\ mode = "three-level") =>
          \A i \in 1..Len(rows) : rows[i].podChildren \cap Unlabelled = {}

\* ------------------------------------------- undecodable files, other kinds
\* The records of the requested kind in the files of a source that decoded
ValidIn(source, kind) ==
    {files[n].items[i].obj :
        <<n, i>> \in {w \in Visited(source) \X (1..MaxItems) :
                         /\ files[w[1]].outcome = "decoded"
                         /\ w[2] <= Len(files[w[1]].items)
                         /\ files[w[1]].items[w[2]].kind = kind}}
Undecodable == {n \in 1..Len(files) : files[n].outcome = "undecodable"}

\* C15: a file that does not decode is passed over with no line on os.Stderr
\* and no error return, an item of another Kind is dropped, and the lists that
\* are analysed hold exactly the records of the requested kind of the files
\* that decoded; the printed rows are those of the eligible ones among them.
C15_UndecodableSkippedKindDropped ==
    /\ \A n \in Undecodable : \A m \in Range(stderr) : m.path # files[n].path
    /\ \A m \in Range(stderr) : m.text # "ERROR: problem reading file"
    /\ Range(prList) = ValidIn("pr", "PipelineRun")
    /\ Range(trList) = ValidIn("tr", "TaskRun")
    /\ Range(podList) = ValidIn("pod", "Pod")
    /\ (pc = "done" /\ cmd \in {"prlist", "all"}) =>
          RowKeys = {KeyOf(o) : o \in {x \in ValidIn("pr", "PipelineRun") : StartedAndDone(x)}}
    /\ (pc = "done" /\ cmd = "trlist") =>
          RowKeys = {KeyOf(o) : o \in {x \in ValidIn("tr", "TaskRun") : StartedAndDone(x)}}
    /\ (pc = "done" /\ cmd = "podlist" /\ ~containerOnly) =>
          RowKeys = {KeyOf(o) : o \in {x \in ValidIn("pod", "Pod") : EligiblePod(x)}}

\* A directory with a file that does not decode and a file holding an item of
\* another Kind next to an eligible pod: the pod's row is printed.
C15_Witness ==
    /\ pc = "done" /\ cmd = "podlist" /\ ~containerOnly
    /\ Undecodable # {}
    /\ \E n \in 1..Len(files) :
          /\ files[n].outcome = "decoded"
          /\ \E i, j \in 1..Len(files[n].items) :
                /\ files[n].items[i].kind # "Pod"
                /\ files[n].items[j].kind = "Pod" /\ EligiblePod(files[n].items[j].obj)
    /\ Len(rows) = 1

\* ------------------------------------------------------- the scope filter
\* The keys the filter lets through: all of them when it is empty, else the
\* one equal to it (a pipeline run) or those it is a prefix of (a child).
Exactly(keys) == IF filterArg = EmptyString THEN keys ELSE keys \cap {filterArg}
Under(keys) ==
    IF filterArg = EmptyString THEN keys ELSE {k \in keys : StartsWith(k, filterArg)}
LabelledPodKeys == {KeyOf(p) : p \in {x \in Range(podList) : EligiblePod(x)}}
LabelledContainerKeys ==
    UNION {{SprintfContainer(p.ns, p.name, p.containerStatuses[i].name) :
               i \in TerminatedStatuses(p)} :
           p \in {x \in Range(podList) : EligiblePod(x) /\ KeyOf(x) \in Under({KeyOf(x)})}}

\* C16: the pipeline runs analysed are the eligible ones whose key equals the
\* filter, the task runs and pods analysed are the eligible ones whose key the
\* filter is a prefix of, and with the empty filter they are all the eligible
\* ones; the rows printed are those of the analysed entities.
C16_ScopeFilter ==
    /\ DOMAIN prToDuration = Exactly(PrKeys)
    /\ DOMAIN trToDuration = Under(TrKeys)
    /\ DOMAIN podToDuration = (IF containerOnly THEN {} ELSE Under(LabelledPodKeys))
    /\ DOMAIN containerToDuration = (IF containerOnly THEN LabelledContainerKeys ELSE {})
    /\ pc = "done" =>
          {rows[i].key : i \in 1..Len(rows)} =
             DOMAIN prToDuration \cup DOMAIN trToDuration
             \cup DOMAIN podToDuration \cup DOMAIN containerToDuration

\* trlist under the filter n:r10 over task runs n:r1a and n:r10a, both done:
\* only the row of n:r10a is printed; and prlist under n:r1 over pipeline runs
\* n:r1 and n:r10 prints only n:r1.
C16_Witness ==
    /\ pc = "done" /\ Len(rows) = 1
    /\ \/ /\ cmd = "trlist" /\ filterArg = Sprintf(NsN, NameR10)
          /\ {Sprintf(NsN, NameR1A), Sprintf(NsN, NameR10A)} \subseteq TrKeys
          /\ rows[1].key = Sprintf(NsN, NameR10A)
       \/ /\ cmd = "prlist" /\ filterArg = Sprintf(NsN, NameR1)
          /\ {Sprintf(NsN, NameR1), Sprintf(NsN, NameR10)} \subseteq PrKeys
          /\ rows[1].key = Sprintf(NsN, NameR1)

\* ------------------------------------------------ order of map iteration
\* No two keys of a kind have the same duration
NoTies(toDuration) ==
    \A j, k \in DOMAIN toDuration : j # k => toDuration[j] # toDuration[k]
\* The orders in which a range over the map can visit its keys
Orders(m) == {o \in Arrangements(DOMAIN m) : Len(o) = Cardinality(DOMAIN m)}
\* The counts innerConcurrency can return for a key over those orders
CountsOf(key, starts, ends) ==
    {innerLoopIn(o, key, starts, ends, Lookup(starts, key), Lookup(ends, key), 1) :
        o \in Orders(starts)}
\* ret is the one result every order of map iteration gives
OnlyOutcome(ret, durations, toDuration, starts, ends) ==
    /\ RankedKeys(durations, toDuration) = {ret.S}
    /\ \A i \in 1..Len(ret.S) :
          /\ ret.F[i] = toDuration[ret.S[i]]
          /\ CountsOf(ret.S[i], starts, ends) = {ret.I[i]}
    /\ \A i, j \in 1..Len(ret.S) : i < j => ret.F[i] < ret.F[j]

\* C17: when no two keys of a kind have the same duration, the flat result
\* returned for the kind is the same whatever the order in which the ranking
\* loop and innerConcurrency range over their maps, its durations strictly
\* ascend, and the rows of a list command are that result.
C17_DeterministicWithoutTies ==
    /\ (Returned1 /\ NoTies(prToDuration)) =>
          OnlyOutcome(ret1, prDurations, prToDuration, prStartTimes, prEndTimes)
    /\ (Returned2 /\ NoTies(trToDuration)) =>
          OnlyOutcome(ret2, trDurations, trToDuration, trStartTimes, trEndTimes)
    /\ (Returned3 /\ ~containerOnly /\ NoTies(podToDuration)) =>
          OnlyOutcome(ret3, podDurations, podToDuration, podStartTimes, podEndTimes)
    /\ (Returned3 /\ containerOnly /\ NoTies(containerToDuration)) =>
          OnlyOutcome(ret3, containerDurations, containerToDuration,
                      containerStartTimes, containerEndTimmes)
    /\ (pc = "done" /\ cmd = "prlist") => rows = PrintList(ret1)
    /\ (pc = "done" /\ cmd = "trlist") => rows = PrintList(ret2)
    /\ (pc = "done" /\ cmd = "podlist") => rows = PrintList(ret3)

\* Three task runs of three different durations, two of them concurrent
C17_Witness ==
    /\ pc = "done" /\ cmd = "trlist" /\ NoTies(trToDuration)
    /\ Len(ret2.S) = 3 /\ Len(rows) = 3
    /\ \E i, j \in 1..3 : ret2.I[i] # ret2.I[j]

\* ------------------------------------------------- the three-level totals
\* No two records of the list have the same key
DistinctKeys(list) ==
    \A i, j \in 1..Len(list) : i # j => KeyOf(list[i]) # KeyOf(list[j])
\* The task runs of the input that are done and owned by the pipeline run pr,
\* and the started, terminal pods owned by one of them, as list positions
QualifyingTaskRuns(pr) ==
    {i \in 1..Len(trList) : StartedAndDone(trList[i]) /\ Owns(trList[i], pr)}
QualifyingPods(pr) ==
    {j \in 1..Len(podList) :
        /\ StartedAndTerminal(podList[j])
        /\ \E i \in QualifyingTaskRuns(pr) : Owns(podList[j], trList[i])}

\* C18 as stated, on lists that name every entity once: in the three-level
\* build the task-run total of a row is the sum of the durations of the done
\* task runs its pipeline run owns, and the pod total is the sum of the
\* durations of the pods owned by one of those task runs, each pod once.
C18_ChainedTotals ==
    (/\ mode = "three-level" /\ cmd = "all" /\ pc = "done"
     /\ DistinctKeys(prList) /\ DistinctKeys(trList) /\ DistinctKeys(podList)) =>
       \A n \in 1..Len(rows) :
          LET pr == LastOf(prList, rows[n].key, StartedAndDone)
              trs == QualifyingTaskRuns(pr)
              pods == QualifyingPods(pr)
          IN /\ rows[n].trDuration = SumOver(trs, [i \in trs |-> RunDuration(trList[i])])
             /\ rows[n].podDuration = SumOver(pods, [j \in pods |-> PodDuration(podList[j])])

\* --------------------------------------------------- the two-level totals
\* The done task runs and the eligible pods whose key starts with prkey
TaskRunKeysUnder(prkey) == {k \in TrKeys : StartsWith(k, prkey)}
PodKeysUnder(prkey) == {k \in LabelledPodKeys : StartsWith(k, prkey)}

\* C19: in the two-level build the pod total of a row is the sum of the
\* durations of the eligible pods whose key starts with the row's key, a sum
\* over the pod list alone, and the task-run total is the sum of the durations
\* of the done task runs whose key starts with it, a sum over the task-run
\* list alone.
C19_IndependentTotals ==
    AggregateDone =>
       \A n \in 1..Len(rows) :
          LET trs == TaskRunKeysUnder(rows[n].key)
              pods == PodKeysUnder(rows[n].key)
          IN /\ rows[n].trDuration =
                   SumOver(trs, [k \in trs |-> RunDuration(LastOf(trList, k, StartedAndDone))])
             /\ rows[n].podDuration =
                   SumOver(pods, [k \in pods |-> PodDuration(LastOf(podList, k, EligiblePod))])

\* A pipeline run with two eligible pods and no task run at all: the pod total
\* is theirs, the task-run total 0.
C19_Witness ==
    /\ AggregateDone /\ trList = << >>
    /\ \E n \in 1..Len(rows) :
          /\ Cardinality(PodKeysUnder(rows[n].key)) = 2
          /\ rows[n].podDuration > 0 /\ rows[n].trDuration = 0

\* ---------------------------------------------------- stored durations
\* Every key of the duration map m keeps its value in the next state
Kept(m, next) == \A k \in DOMAIN m : k \in DOMAIN next /\ next[k] = m[k]

\* C20 as stated: within one invocation no step changes the duration stored
\* for a key that already has one, in any of the four duration maps.
C20_StoredDurationNeverChanges ==
    [][/\ Kept(prToDuration, prToDuration')
       /\ Kept(trToDuration, trToDuration')
       /\ Kept(podToDuration, podToDuration')
       /\ Kept(containerToDuration, containerToDuration')]_vars

\* ----------------------------------------------- a pipeline run of duration 0
\* What the float64 division total / 0 gives
OverZero(total) == IF total = 0 THEN "NaN" ELSE IF total > 0 THEN "+Inf" ELSE "-Inf"
\* The keys of the done pipeline runs whose last record has duration 0
ZeroParents ==
    {k \in PrKeys : RunDuration(LastOf(prList, k, StartedAndDone)) = 0}

\* C21: the `all` command of either build prints the row of a pipeline run of
\* duration 0 like any other: once, with the deltas 0 - total, and with the
\* percentages that the division of the totals by 0 gives (NaN for a total of
\* 0, an infinity otherwise).
C21_ZeroDurationParent ==
    (cmd = "all" /\ pc = "done") =>
       \A k \in ZeroParents :
          /\ Cardinality({n \in 1..Len(rows) : rows[n].key = k}) = 1
          /\ \A n \in 1..Len(rows) :
                rows[n].key = k =>
                   /\ rows[n].duration = 0
                   /\ rows[n].trDelta = 0 - rows[n].trDuration
                   /\ rows[n].podDelta = 0 - rows[n].podDuration
                   /\ rows[n].trPercent =
                         [kind |-> OverZero(rows[n].trDuration), num |-> 0, den |-> 0]
                   /\ rows[n].podPercent =
                         [kind |-> OverZero(rows[n].podDuration), num |-> 0, den |-> 0]

\* A pipeline run of duration 0 with a task run of positive duration and no
\* pod: the row shows +Inf and NaN.
C21_Witness ==
    /\ cmd = "all" /\ pc = "done"
    /\ \E n \in 1..Len(rows) :
          /\ rows[n].key \in ZeroParents
          /\ rows[n].trDuration > 0 /\ rows[n].trPercent.kind = "+Inf"
          /\ rows[n].podDuration = 0 /\ rows[n].podPercent.kind = "NaN"

\* ------------------------------------------------------ the end of a pod
\* C22 as stated: the end time stored for a pod key is the finishedAt of a
\* terminated container status of a pod of that key that passed ignorePod, and
\* the stored duration is that finishedAt minus the pod's startTime.
C22_PodEndIsAContainerFinish ==
    mode = "two-level" =>
       \A k \in DOMAIN podToDuration :
          \E n \in 1..Len(podList) :
             /\ KeyOf(podList[n]) = k /\ EligiblePod(podList[n])
             /\ \E i \in TerminatedStatuses(podList[n]) :
                   /\ podEndTimes[k] = podList[n].containerStatuses[i].finishedAt
                   /\ podToDuration[k] =
                         podList[n].containerStatuses[i].finishedAt - podList[n].startTime

\* ------------------------------------------------ symmetry of the counting
\* A window whose end lies before its start
Skewed(starts, ends, k) == ends[k] < starts[k]

\* C23: for two different keys of the task-run maps, the first is counted in
\* the concurrency of the second exactly when the second is counted in the
\* concurrency of the first, whatever their windows: of length 0, or with the
\* end before the start.
C23_CountingIsSymmetric ==
    \A j, k \in DOMAIN trStartTimes :
       j # k =>
          (CountedIn(trStartTimes, trEndTimes, j, k)
             <=> CountedIn(trStartTimes, trEndTimes, k, j))

\* Three task runs after the return: one whose end lies before its start and
\* one around it count each other, and a third of length 0 counts neither.
C23_Witness ==
    /\ pc = "done" /\ Len(ret2.S) = 3
    /\ \E j, k, z \in DOMAIN trStartTimes :
          /\ Skewed(trStartTimes, trEndTimes, j) /\ ~Skewed(trStartTimes, trEndTimes, k)
          /\ CountedIn(trStartTimes, trEndTimes, j, k)
          /\ CountedIn(trStartTimes, trEndTimes, k, j)
          /\ trStartTimes[z] = trEndTimes[z]
          /\ ~CountedIn(trStartTimes, trEndTimes, z, j)
          /\ ~CountedIn(trStartTimes, trEndTimes, j, z)

\* ------------------------------------------- the key test and the ownership
\* C24 as stated: for every namespace and name, the row of a pipeline run
\* takes a task run or a pod as its child exactly when the child's namespace
\* is the run's and the child's name starts with the run's name.
C24_KeyPrefixIsOwnership ==
    (mode = "two-level" /\ cmd = "all" /\ pc = "done") =>
       \A n \in 1..Len(rows) :
          \A pr \in Range(prList) :
             KeyOf(pr) = rows[n].key =>
                /\ \A tr \in Range(trList) :
                      Owns(tr, pr) <=> KeyOf(tr) \in rows[n].trChildren
                /\ \A pod \in Range(podList) :
                      Owns(pod, pr) <=> KeyOf(pod) \in rows[n].podChildren

\* ------------------------------------------------ the maps of one kind
\* The maps and the slice of one kind agree with each other
Coherent(starts, ends, toDuration, durations, durationsMap) ==
    /\ DOMAIN toDuration = DOMAIN starts /\ DOMAIN toDuration = DOMAIN ends
    /\ \A i, j \in 1..Len(durations) : i # j => durations[i] # durations[j]
    /\ Range(durations) = durationsMap
    /\ \A k \in DOMAIN toDuration : toDuration[k] \in Range(durations)
\* The stored duration of every key is the distance from its start to its end
EndMinusStart(starts, ends, toDuration) ==
    \A k \in DOMAIN toDuration : toDuration[k] = ends[k] - starts[k]

\* C25 as stated: after any sequence of process calls the three maps of a kind
\* have one key set, the duration of a key is its end minus its start, the
\* slice of distinct durations repeats no value, holds the values of the
\* distinct-duration map and holds every stored duration.
C25_MapsAgree ==
    mode = "two-level" =>
       /\ Coherent(prStartTimes, prEndTimes, prToDuration, prDurations, prDurationsMap)
       /\ EndMinusStart(prStartTimes, prEndTimes, prToDuration)
       /\ Coherent(trStartTimes, trEndTimes, trToDuration, trDurations, trDurationsMap)
       /\ EndMinusStart(trStartTimes, trEndTimes, trToDuration)
       /\ Coherent(podStartTimes, podEndTimes, podToDuration, podDurations, podDurationsMap)
       /\ EndMinusStart(podStartTimes, podEndTimes, podToDuration)
       /\ Coherent(containerStartTimes, containerEndTimmes, containerToDuration,
                   containerDurations, containerDurationsMap)
       /\ EndMinusStart(containerStartTimes, containerEndTimmes, containerToDuration)

====
